---- MODULE Spec2Model ----
(***************************************************************************)
(* Seat-capacity allocation engine of the reservations API:                *)
(*   routes/reservations.js       create / delete / list / single-date     *)
(*                                availability; admin router               *)
(*   services/sms.js              formatTimeSlot, outcome of a send        *)
(*   routes/batch-availability.js batch availability                       *)
(*   validation/schemas.js        createReservationSchema                  *)
(*   index.js                     middleware order, rate limiters          *)
(*                                                                         *)
(* Dates are calendar days, written as the day number counted from         *)
(* 2025-06-01 (2025-06-20 = 20, 2025-07-04 = 34).  Every handler truncates *)
(* its date with setHours(0, 0, 0, 0); a date of the model is the day this *)
(* yields, the same for the write and the read of one calendar day.        *)
(* A reservation id (cuid) is a fresh number.  A time label "HH:MM" is the *)
(* pair <<HH, MM>>.                                                        *)
(*                                                                         *)
(* Specifications:                                                         *)
(*   Spec          create and delete, one request at a time                *)
(*   SpecValidate  the same handlers on boundary and invalid requests      *)
(*   SpecAvail     create, delete and the two availability endpoints       *)
(*   SpecConc      concurrent create requests, one step per await          *)
(*   SpecSlots     the occupied-slot computation on every start slot       *)
(*   SpecFull      full-capacity parties on two dates, both endpoints      *)
(*   SpecAdmin     customer delete and admin delete (admin router)         *)
(*   SpecStatus    availability and create over rows no longer CONFIRMED   *)
(*   SpecList      the reservation list of a phone number                  *)
(*   SpecNotify    create, delete and admin delete, one step per await,    *)
(*                 with the calls made to services/sms.js                  *)
(*   SpecAdminOps  admin list, daily summary and delete behind             *)
(*                 authenticateAdmin                                       *)
(*   SpecApart     full-capacity bookings three hours apart                *)
(*   SpecSlotRange create over the range of start slots                    *)
(*   SpecFormat    the time labels of the SMS service and the listing      *)
(*   SpecApp       the middleware stack of index.js with its rate limiters *)
(*   SpecFrame     every operation that can reach the reservation table    *)
(*   SpecAgree     create, delete and the batch availability of one date   *)
(*   SpecConcLate  concurrent create requests in the late window           *)
(*   SpecConcDelete, SpecConcCancel                                        *)
(*                 concurrent delete requests, one step per await          *)
(*   SpecSummary   create, delete and the admin daily summary              *)
(*                                                                         *)
(* The batch endpoint files each date under the UTC rendering of the local *)
(* midnight (toISOString); utcOffset is the server's offset east of UTC.   *)
(***************************************************************************)
EXTENDS Integers, Sequences, FiniteSets, TLC

VARIABLES store, nextId, sms, req, resp, pc, creq, snap, result, cresp, hits

vars == <<store, nextId, sms, req, resp, pc, creq, snap, result, cresp, hits>>

(***************************************************************************)
(* Bounds of the model.                                                    *)
(***************************************************************************)
MaxReservations == 2
NumProcs == 3

(***************************************************************************)
(* Program constants.                                                      *)
(***************************************************************************)
maxCapacity == 6
maxSlot == 39
lateThreshold == 27
durationSlots == 12
DateMin == 20
DateMax == 34
MinPartySize == 1
MaxPartySize == 6
MinTimeSlot == 0
MaxTimeSlot == 39
MinNameLen == 2
MaxNameLen == 100

(***************************************************************************)
(* Slot calendar: the occupied-slot computation.                           *)
(***************************************************************************)
RECURSIVE RegularLoop(_, _, _)
RegularLoop(timeSlot, i, slots) ==
  IF i < durationSlots
    THEN RegularLoop(timeSlot, i + 1,
                     IF timeSlot + i <= maxSlot
                       THEN Append(slots, timeSlot + i)
                       ELSE slots)
    ELSE slots

RECURSIVE LateLoop(_, _)
LateLoop(slot, slots) ==
  IF slot <= maxSlot
    THEN LateLoop(slot + 1, Append(slots, slot))
    ELSE slots

\* variant: every new reservation is taken to last until closing
occupiedSlotsUntilClose(timeSlot) == LateLoop(timeSlot, <<>>)

\* occupiedSlots of the new reservation, computed inline in the transaction
occupiedSlots(timeSlot) ==
  IF timeSlot <= lateThreshold
    THEN RegularLoop(timeSlot, 0, <<>>)
    ELSE LateLoop(timeSlot, <<>>)

\* variant: the late window starts one slot early (< instead of <=)
calculateOccupiedSlotsEarlyLate(reservationTimeSlot) ==
  IF reservationTimeSlot < lateThreshold
    THEN RegularLoop(reservationTimeSlot, 0, <<>>)
    ELSE LateLoop(reservationTimeSlot, <<>>)

\* calculateOccupiedSlots helper of the create transaction
calculateOccupiedSlots(reservationTimeSlot) ==
  IF reservationTimeSlot <= lateThreshold
    THEN RegularLoop(reservationTimeSlot, 0, <<>>)
    ELSE LateLoop(reservationTimeSlot, <<>>)

\* calculateOccupiedSlots helper of GET /availability/:date
calculateOccupiedSlotsSingle(reservationTimeSlot) ==
  IF reservationTimeSlot <= lateThreshold
    THEN RegularLoop(reservationTimeSlot, 0, <<>>)
    ELSE LateLoop(reservationTimeSlot, <<>>)

\* calculateOccupiedSlots helper of GET /availability/batch
calculateOccupiedSlotsBatch(reservationTimeSlot) ==
  IF reservationTimeSlot <= lateThreshold
    THEN RegularLoop(reservationTimeSlot, 0, <<>>)
    ELSE LateLoop(reservationTimeSlot, <<>>)

\* The four helpers tabulated over the slot range (each value is the helper's
\* result, computed once)
newOccupied == [t \in 0..maxSlot |-> occupiedSlots(t)]
createOccupied == [t \in 0..maxSlot |-> calculateOccupiedSlots(t)]
singleOccupied == [t \in 0..maxSlot |-> calculateOccupiedSlotsSingle(t)]
batchOccupied == [t \in 0..maxSlot |-> calculateOccupiedSlotsBatch(t)]

\* Array.prototype.includes
Includes(seq, x) == \E i \in 1..Len(seq) : seq[i] = x

\* .reduce((sum, res) => sum + res.partySize, 0) over a set of rows
RECURSIVE SumPartySize(_)
SumPartySize(rows) ==
  IF rows = {} THEN 0
  ELSE LET r == CHOOSE x \in rows : TRUE
       IN r.partySize + SumPartySize(rows \ {r})

(***************************************************************************)
(* Reservation store queries.                                              *)
(***************************************************************************)
\* variant: the date is dropped from the where clause
findManyConfirmedAnyDate(rows, date) ==
  {r \in rows : r.status = "CONFIRMED"}

\* findMany({ where: { date, status: 'CONFIRMED' } })
findManyConfirmed(rows, date) ==
  {r \in rows : r.date = date /\ r.status = "CONFIRMED"}

\* variant: the where clause is dropped and every row matches
findUniqueIgnoringId(rows, id) == rows

\* findUnique({ where: { id } })
findUnique(rows, id) == {r \in rows : r.id = id}

(***************************************************************************)
(* Request validation (createReservationSchema, validateRequest).          *)
(* A request body is a record; r.missing is the set of absent fields and   *)
(* r.malformed the set of fields whose value has the wrong type (a         *)
(* non-date, a non-integer, a non-string).                                 *)
(***************************************************************************)
\* sample strings matching /^(0\d{1,4}-\d{1,4}-\d{4}|0\d{10}|\+?[1-9]\d{1,14})$/
PhonePattern == {"+1234567890", "+1987654321", "090-1234-5678"}

\* variant: the schema without .max(6) on partySize
createReservationSchemaNoMaxParty(body) ==
  IF "date" \in body.missing \cup body.malformed THEN "date"
  ELSE IF body.date < DateMin THEN "date.min"
  ELSE IF body.date > DateMax THEN "date.max"
  ELSE IF "timeSlot" \in body.missing \cup body.malformed THEN "timeSlot"
  ELSE IF body.timeSlot < MinTimeSlot THEN "number.min"
  ELSE IF body.timeSlot > MaxTimeSlot THEN "number.max"
  ELSE IF "partySize" \in body.missing \cup body.malformed THEN "partySize"
  ELSE IF body.partySize < MinPartySize THEN "number.min"
  ELSE IF "name" \in body.missing \cup body.malformed THEN "name"
  ELSE IF body.nameLen < MinNameLen THEN "string.min"
  ELSE IF body.nameLen > MaxNameLen THEN "string.max"
  ELSE IF "phone" \in body.missing \cup body.malformed THEN "phone"
  ELSE IF body.phone \notin PhonePattern THEN "string.pattern.base"
  ELSE "ok"

\* Joi reports the first failing key, in schema order
createReservationSchema(body) ==
  IF "date" \in body.missing \cup body.malformed THEN "date"
  ELSE IF body.date < DateMin THEN "date.min"
  ELSE IF body.date > DateMax THEN "date.max"
  ELSE IF "timeSlot" \in body.missing \cup body.malformed THEN "timeSlot"
  ELSE IF body.timeSlot < MinTimeSlot THEN "number.min"
  ELSE IF body.timeSlot > MaxTimeSlot THEN "number.max"
  ELSE IF "partySize" \in body.missing \cup body.malformed THEN "partySize"
  ELSE IF body.partySize < MinPartySize THEN "number.min"
  ELSE IF body.partySize > MaxPartySize THEN "number.max"
  ELSE IF "name" \in body.missing \cup body.malformed THEN "name"
  ELSE IF body.nameLen < MinNameLen THEN "string.min"
  ELSE IF body.nameLen > MaxNameLen THEN "string.max"
  ELSE IF "phone" \in body.missing \cup body.malformed THEN "phone"
  ELSE IF body.phone \notin PhonePattern THEN "string.pattern.base"
  ELSE "ok"

\* variant: start slots from 29 on are refused
validateRequestRegularStart(body) ==
  createReservationSchema(body) = "ok" /\ body.timeSlot <= lateThreshold + 1

\* validateRequest(schema): 400 on error, otherwise next()
validateRequest(body) == createReservationSchema(body) = "ok"

(***************************************************************************)
(* Capacity check of the create transaction.                               *)
(***************************************************************************)
\* seats taken at one slot by the rows read in the transaction
slotOccupiedSeats(existingReservations, slot) ==
  SumPartySize({res \in existingReservations :
                  Includes(createOccupied[res.timeSlot], slot)})

\* the time label of the conflict message
timeString(slot) ==
  LET slotHour == (slot \div 4) + 18
      slotMin == (slot % 4) * 15
  IN <<IF slotHour >= 24 THEN slotHour - 24 ELSE slotHour, slotMin>>

\* variant: a party that exactly fills the remaining seats is refused
RECURSIVE CapacityLoopOffByOne(_, _, _, _)
CapacityLoopOffByOne(slots, i, existingReservations, partySize) ==
  IF i > Len(slots) THEN [ok |-> TRUE]
  ELSE LET slot == slots[i]
           seats == slotOccupiedSeats(existingReservations, slot)
       IN IF seats + partySize >= maxCapacity
            THEN [ok |-> FALSE, slot |-> slot,
                  availableSeats |-> maxCapacity - seats,
                  time |-> timeString(slot)]
            ELSE CapacityLoopOffByOne(slots, i + 1, existingReservations,
                                      partySize)

\* variant: the slots are scanned from the last one down
RECURSIVE CapacityLoopDescending(_, _, _, _)
CapacityLoopDescending(slots, i, existingReservations, partySize) ==
  IF i > Len(slots) THEN [ok |-> TRUE]
  ELSE LET slot == slots[Len(slots) - i + 1]
           seats == slotOccupiedSeats(existingReservations, slot)
       IN IF seats + partySize > maxCapacity
            THEN [ok |-> FALSE, slot |-> slot,
                  availableSeats |-> maxCapacity - seats,
                  time |-> timeString(slot)]
            ELSE CapacityLoopDescending(slots, i + 1, existingReservations,
                                        partySize)

\* for (const slot of occupiedSlots) { ... throw ... }, from index i on
RECURSIVE CapacityLoop(_, _, _, _)
CapacityLoop(slots, i, existingReservations, partySize) ==
  IF i > Len(slots) THEN [ok |-> TRUE]
  ELSE LET slot == slots[i]
           seats == slotOccupiedSeats(existingReservations, slot)
       IN IF seats + partySize > maxCapacity
            THEN [ok |-> FALSE, slot |-> slot,
                  availableSeats |-> maxCapacity - seats,
                  time |-> timeString(slot)]
            ELSE CapacityLoop(slots, i + 1, existingReservations, partySize)

\* variant: only the start slot of the new reservation is checked
checkCapacityStartSlotOnly(existingReservations, timeSlot, partySize) ==
  CapacityLoop(<<timeSlot>>, 1, existingReservations, partySize)

checkCapacity(existingReservations, timeSlot, partySize) ==
  CapacityLoop(newOccupied[timeSlot], 1, existingReservations, partySize)

\* tx.reservation.create({ data: {..., status: 'CONFIRMED'} })
newRow(id, body) ==
  [id |-> id, date |-> body.date, timeSlot |-> body.timeSlot,
   partySize |-> body.partySize, phone |-> body.phone,
   status |-> "CONFIRMED"]

(***************************************************************************)
(* Availability (read side).                                               *)
(***************************************************************************)
\* formatTime(hour, min) of both availability endpoints
formatTime(hour, min) == <<IF hour > 24 THEN hour - 24 ELSE hour, min>>

\* the "HH:MM-HH:MM" label of a slot: <<start label, end label>>
slotTimeLabel(slot) ==
  LET startHour == (slot \div 4) + 18
      startMin == (slot % 4) * 15
      endHour == ((slot + 1) \div 4) + 18
      endMin == ((slot + 1) % 4) * 15
  IN <<formatTime(startHour, startMin), formatTime(endHour, endMin)>>

\* variant: only the reservations that start at the slot are counted
usedSeatsSingleSameStart(existingReservations, slot) ==
  SumPartySize({reservation \in existingReservations :
                  reservation.timeSlot = slot})

\* GET /availability/:date : seats used at one slot
usedSeatsSingle(existingReservations, slot) ==
  SumPartySize({reservation \in existingReservations :
                  Includes(singleOccupied[reservation.timeSlot], slot)})

\* GET /availability/:date : for (let slot = 0; slot <= 39; slot++)
RECURSIVE singleSlotLoop(_, _, _)
singleSlotLoop(existingReservations, slot, availableSlots) ==
  IF slot > maxSlot THEN availableSlots
  ELSE LET availableSeats ==
             maxCapacity - usedSeatsSingle(existingReservations, slot)
       IN singleSlotLoop(existingReservations, slot + 1,
            IF availableSeats > 0
              THEN Append(availableSlots,
                          [slot |-> slot, time |-> slotTimeLabel(slot),
                           availableSeats |-> availableSeats,
                           maxCapacity |-> maxCapacity])
              ELSE availableSlots)

\* variant: the slot loop starts at slot 1
singleAvailabilityFromOne(rows, date) ==
  singleSlotLoop(findManyConfirmed(rows, date), 1, <<>>)

singleAvailability(rows, date) ==
  singleSlotLoop(findManyConfirmed(rows, date), 0, <<>>)

\* GET /availability/batch : seats used at one check slot
usedSeatsBatch(dateReservations, checkSlot) ==
  SumPartySize({reservation \in dateReservations :
                  Includes(batchOccupied[reservation.timeSlot], checkSlot)})

\* variant: only the start slot of the hypothetical reservation is looked at
minAvailableStartSlotOnly(dateReservations, slots, i, minAvailableSeats) ==
  maxCapacity - usedSeatsBatch(dateReservations, slots[1])

\* for (const checkSlot of occupiedSlotsForNewReservation), from index i on
RECURSIVE minAvailableLoop(_, _, _, _)
minAvailableLoop(dateReservations, slots, i, minAvailableSeats) ==
  IF i > Len(slots) THEN minAvailableSeats
  ELSE LET availableSeatsForSlot ==
             maxCapacity - usedSeatsBatch(dateReservations, slots[i])
       IN minAvailableLoop(dateReservations, slots, i + 1,
            IF availableSeatsForSlot < minAvailableSeats
              THEN availableSeatsForSlot
              ELSE minAvailableSeats)

\* GET /availability/batch : for (let slot = 0; slot <= 39; slot++)
RECURSIVE batchSlotLoop(_, _, _)
batchSlotLoop(dateReservations, slot, availableSlots) ==
  IF slot > maxSlot THEN availableSlots
  ELSE LET minAvailableSeats ==
             minAvailableLoop(dateReservations,
                              batchOccupied[slot], 1,
                              maxCapacity)
       IN batchSlotLoop(dateReservations, slot + 1,
            IF minAvailableSeats > 0
              THEN Append(availableSlots,
                          [slot |-> slot, time |-> slotTimeLabel(slot),
                           availableSeats |-> minAvailableSeats,
                           maxCapacity |-> maxCapacity])
              ELSE availableSlots)

\* variant: the status is dropped from the where clause
findManyRangeAnyStatus(rows, start, end) ==
  {r \in rows : r.date >= start /\ r.date <= end}

\* findMany({ where: { date: { gte: start, lte: endForQuery },
\*                     status: 'CONFIRMED' } })
findManyRange(rows, start, end) ==
  {r \in rows : r.date >= start /\ r.date <= end /\ r.status = "CONFIRMED"}

\* const dateKey = currentDate.toISOString().split('T')[0] : currentDate is
\* the local midnight of a day, toISOString prints it in UTC.  On a server
\* utcOffset hours east of UTC the local midnight of day c is the instant
\* (24 - utcOffset):00 UTC of day c - 1; at UTC it is 00:00 UTC of day c.
dateKey(currentDate, utcOffset) ==
  IF utcOffset > 0 THEN currentDate - 1 ELSE currentDate

\* while (currentDate <= end) { availability[dateKey] = ...; setDate(+1) }
RECURSIVE batchDateLoop(_, _, _, _, _)
batchDateLoop(existingReservations, currentDate, end, availability, utcOffset) ==
  IF currentDate <= end
    THEN LET dateReservations ==
               {res \in existingReservations : res.date = currentDate}
             key == dateKey(currentDate, utcOffset)
         IN batchDateLoop(existingReservations, currentDate + 1, end,
              (key :> [date |-> key,
                       availableSlots |->
                         batchSlotLoop(dateReservations, 0, <<>>)])
                @@ availability,
              utcOffset)
    ELSE availability

batchAvailability(rows, start, end, utcOffset) ==
  batchDateLoop(findManyRange(rows, start, end), start, end, <<>>, utcOffset)

(***************************************************************************)
(* Requests offered to the handlers.                                       *)
(***************************************************************************)
Procs == 1..NumProcs
Ids == 1..MaxReservations

SlotSample == {0, 8, 28, 39}
SizeSample == {2, 3, 4}

body(date, timeSlot, partySize) ==
  [date |-> date, timeSlot |-> timeSlot, partySize |-> partySize,
   nameLen |-> 4, phone |-> "+1234567890", missing |-> {}, malformed |-> {}]

\* validated requests offered to the capacity engine
ValidBodies ==
  {body(DateMin, t, p) : t \in SlotSample, p \in SizeSample}
    \cup {body(DateMax, 8, 4), body(DateMax, 39, 3)}

\* the boundary values of every validated field
BoundaryBodies ==
  {body(d, t, p) : d \in {DateMin, DateMax},
                   t \in {MinTimeSlot, MaxTimeSlot},
                   p \in {MinPartySize, MaxPartySize}}

\* one field out of range, absent or of the wrong type
InvalidBodies ==
  LET b == body(DateMin, 8, 2)
  IN {[b EXCEPT !.date = DateMin - 1], [b EXCEPT !.date = DateMax + 1],
      [b EXCEPT !.timeSlot = MinTimeSlot - 1],
      [b EXCEPT !.timeSlot = MaxTimeSlot + 1],
      [b EXCEPT !.partySize = MinPartySize - 1],
      [b EXCEPT !.partySize = MaxPartySize + 1],
      [b EXCEPT !.nameLen = MinNameLen - 1],
      [b EXCEPT !.nameLen = MaxNameLen + 1],
      [b EXCEPT !.phone = "abc"]}
     \cup {[b EXCEPT !.missing = {f}] :
             f \in {"date", "timeSlot", "partySize", "name", "phone"}}
     \cup {[b EXCEPT !.malformed = {f}] :
             f \in {"date", "timeSlot", "partySize"}}

ValidationInputs == BoundaryBodies \cup InvalidBodies

\* requests offered to the read side
AvailBodies ==
  {body(DateMin, t, p) : t \in {0, 8, 28}, p \in {2, 4}}
    \cup {body(DateMax, 8, 6), body(DateMax, 28, 2)}

AvailDates == {DateMin, DateMax}

BatchInputs ==
  {[startDate |-> DateMin, endDate |-> DateMin, missing |-> {}],
   [startDate |-> DateMax - 1, endDate |-> DateMax, missing |-> {}],
   [startDate |-> DateMax, endDate |-> DateMin, missing |-> {}],
   [startDate |-> DateMin, endDate |-> DateMin, missing |-> {"startDate"}],
   [startDate |-> DateMin, endDate |-> DateMin, missing |-> {"endDate"}]}

\* requests offered to the admin router: the password field of the body and
\* the ADMIN_PASSWORD of the environment ("" : not set)
Credentials ==
  {[password |-> "admin-secret", type |-> "string"],
   [password |-> "wrong-secret", type |-> "string"],
   [password |-> "", type |-> "string"],
   [password |-> "", type |-> "missing"],
   [password |-> "", type |-> "number"]}

AdminPasswords == {"admin-secret", ""}

AdminBodies ==
  {body(DateMin, 8, 2), body(DateMin, 8, 4), body(DateMax, 8, 4)}

\* enum ReservationStatus without CONFIRMED
TerminalStatuses == {"NO_SHOW", "COMPLETED"}

StatusBodies ==
  {body(DateMin, 8, 6), body(DateMin, 0, 4), body(DateMax, 28, 6)}

StatusBatchInputs ==
  {[startDate |-> DateMin, endDate |-> DateMin, missing |-> {}],
   [startDate |-> DateMax - 1, endDate |-> DateMax, missing |-> {}],
   [startDate |-> DateMax, endDate |-> DateMin, missing |-> {}]}

\* create requests of two customers and the list queries offered
ListBodies ==
  {body(DateMin, 8, 2), body(DateMax, 0, 2),
   [body(DateMin, 8, 3) EXCEPT !.phone = "+1987654321"]}

ListQueries ==
  {[phone |-> "", date |-> 0, status |-> ""],
   [phone |-> "", date |-> DateMin, status |-> "CONFIRMED"],
   [phone |-> "+1234567890", date |-> 0, status |-> ""],
   [phone |-> "+1234567890", date |-> DateMin, status |-> ""],
   [phone |-> "+1987654321", date |-> 0, status |-> "CONFIRMED"],
   [phone |-> "+1234567890", date |-> 0, status |-> "CANCELLED"]}

\* requests offered to the handlers run step by step
NotifyBodies ==
  {body(DateMin, 8, 2), body(DateMin, 8, 4),
   [body(DateMin, 8, 2) EXCEPT !.partySize = MaxPartySize + 1]}

NotifyCredentials ==
  {[password |-> "admin-secret", type |-> "string"],
   [password |-> "wrong-secret", type |-> "string"]}

\* process timezone of the server, as hours east of UTC: UTC and Asia/Tokyo
UtcOffsets == {0, 9}

NoBody == [op |-> "none"]

\* the rate limiters of index.js and the requests each one admits per window
\* (general: 15 min, admin: 15 min, reservation: 5 min)
Limiters == {"general", "admin", "reservation"}

limiterMax == [general |-> 100, admin |-> 20, reservation |-> 10]

\* requests counted for the client in the current window of each limiter
NoHits == [l \in Limiters |-> 0]

\* the two mounts of the reservations router
Mounts == {"/reservations", "/api/reservations"}

(***************************************************************************)
(* Initial state: an empty reservation table, no request in progress.      *)
(***************************************************************************)
Init ==
  /\ store = {}
  /\ nextId = 1
  /\ sms = {}
  /\ req = [op |-> "none"]
  /\ resp = [op |-> "none"]
  /\ pc = [p \in Procs |-> "idle"]
  /\ creq = [p \in Procs |-> NoBody]
  /\ snap = [p \in Procs |-> {}]
  /\ result = [p \in Procs |-> NoBody]
  /\ cresp = [p \in Procs |-> 0]
  /\ hits = NoHits

(***************************************************************************)
(* Handlers, each run to completion (requests one at a time).              *)
(***************************************************************************)
\* variant: the row is inserted before the capacity loop and the throw does
\* not undo it
CreateWithoutRollback(b) ==
  /\ req' = [op |-> "create", body |-> b]
  /\ UNCHANGED <<pc, creq, snap, result, cresp>>
  /\ IF ~validateRequest(b)
       THEN /\ resp' = [op |-> "create", status |-> 400,
                        error |-> createReservationSchema(b)]
            /\ UNCHANGED <<store, nextId, sms>>
       ELSE LET existingReservations == findManyConfirmed(store, b.date)
                chk == checkCapacity(existingReservations,
                                     b.timeSlot, b.partySize)
            IN /\ nextId <= MaxReservations
               /\ store' = store \cup {newRow(nextId, b)}
               /\ nextId' = nextId + 1
               /\ IF ~chk.ok
                    THEN /\ resp' = [op |-> "create", status |-> 409,
                                     slot |-> chk.slot, time |-> chk.time,
                                     availableSeats |-> chk.availableSeats]
                         /\ UNCHANGED sms
                    ELSE /\ sms' = sms \cup {[kind |-> "confirmation",
                                              id |-> nextId]}
                         /\ \E delivered \in BOOLEAN :
                              resp' = [op |-> "create", status |-> 201,
                                       reservation |-> newRow(nextId, b),
                                       sms |-> IF delivered THEN "sent"
                                               ELSE "failed"]

\* router.post('/', validateRequest(createReservationSchema), ...), with
\* SMS_COST_SAVING not set to 'true': every confirmation is sent
\* (SendConfirmation has both settings)
Create(b) ==
  /\ req' = [op |-> "create", body |-> b]
  /\ UNCHANGED <<pc, creq, snap, result, cresp>>
  /\ IF ~validateRequest(b)
       THEN /\ resp' = [op |-> "create", status |-> 400,
                        error |-> createReservationSchema(b)]
            /\ UNCHANGED <<store, nextId, sms>>
       ELSE LET existingReservations == findManyConfirmed(store, b.date)
                chk == checkCapacity(existingReservations,
                                     b.timeSlot, b.partySize)
            IN IF ~chk.ok
                 THEN /\ resp' = [op |-> "create", status |-> 409,
                                  slot |-> chk.slot, time |-> chk.time,
                                  availableSeats |-> chk.availableSeats]
                      /\ UNCHANGED <<store, nextId, sms>>
                 ELSE /\ nextId <= MaxReservations
                      /\ store' = store \cup {newRow(nextId, b)}
                      /\ nextId' = nextId + 1
                      /\ sms' = sms \cup {[kind |-> "confirmation",
                                           id |-> nextId]}
                      /\ \E delivered \in BOOLEAN :
                           resp' = [op |-> "create", status |-> 201,
                                    reservation |-> newRow(nextId, b),
                                    sms |-> IF delivered THEN "sent"
                                            ELSE "failed"]

\* variant: the row is looked up and the cancellation is sent, but the row
\* stays in the table
DeleteWithoutRemoval(id) ==
  /\ req' = [op |-> "delete", id |-> id]
  /\ UNCHANGED <<nextId, pc, creq, snap, result, cresp>>
  /\ IF findUnique(store, id) = {}
       THEN /\ resp' = [op |-> "delete", status |-> 404]
            /\ UNCHANGED <<store, sms>>
       ELSE /\ store' = store
            /\ sms' = sms \cup {[kind |-> "cancellation", id |-> id]}
            /\ resp' = [op |-> "delete", status |-> 204]

\* router.delete('/:id')
Delete(id) ==
  /\ req' = [op |-> "delete", id |-> id]
  /\ UNCHANGED <<nextId, pc, creq, snap, result, cresp>>
  /\ IF findUnique(store, id) = {}
       THEN /\ resp' = [op |-> "delete", status |-> 404]
            /\ UNCHANGED <<store, sms>>
       ELSE /\ store' = store \ findUnique(store, id)
            /\ sms' = sms \cup {[kind |-> "cancellation", id |-> id]}
            /\ resp' = [op |-> "delete", status |-> 204]

\* variant: the comparison with ADMIN_PASSWORD is left out
authenticateAdminAnyPassword(credentials, adminPassword) ==
  IF credentials.type # "string" \/ credentials.password = "" THEN 401
  ELSE IF adminPassword = "" THEN 500
  ELSE 0

\* authenticateAdmin: the status the middleware answers with, 0 for next()
\*   !password || typeof password !== 'string'  -> 401
\*   !adminPassword                              -> 500
\*   length or timingSafeEqual mismatch          -> 401
authenticateAdmin(credentials, adminPassword) ==
  IF credentials.type # "string" \/ credentials.password = "" THEN 401
  ELSE IF adminPassword = "" THEN 500
  ELSE IF credentials.password # adminPassword THEN 401
  ELSE 0

\* router.delete('/reservations/:id', authenticateAdmin, ...) of the admin
\* router: the cancellation SMS is sent before the row is deleted
AdminDelete(id, credentials, adminPassword) ==
  /\ req' = [op |-> "adminDelete", id |-> id, credentials |-> credentials,
             adminPassword |-> adminPassword]
  /\ UNCHANGED <<nextId, pc, creq, snap, result, cresp>>
  /\ LET auth == authenticateAdmin(credentials, adminPassword)
         existingReservation == findUnique(store, id)
     IN IF auth # 0
          THEN /\ resp' = [op |-> "adminDelete", status |-> auth]
               /\ UNCHANGED <<store, sms>>
          ELSE IF existingReservation = {}
            THEN /\ resp' = [op |-> "adminDelete", status |-> 404]
                 /\ UNCHANGED <<store, sms>>
            ELSE /\ sms' = sms \cup {[kind |-> "cancellation", id |-> id]}
                 /\ store' = store \ existingReservation
                 /\ \E delivered \in BOOLEAN :
                      resp' = [op |-> "adminDelete", status |-> 200,
                               sms |-> IF delivered THEN "sent"
                                       ELSE "failed",
                               reservation |->
                                 CHOOSE r \in existingReservation : TRUE]

\* the orders the database may return the rows in: ascending by date, then
\* by timeSlot; rows equal on both come in any order
OrderedBy(rows) ==
  {seq \in [1..Cardinality(rows) -> rows] :
     /\ \A i, j \in 1..Cardinality(rows) : i # j => seq[i] # seq[j]
     /\ \A i, j \in 1..Cardinality(rows) :
          i < j => \/ seq[i].date < seq[j].date
                   \/ /\ seq[i].date = seq[j].date
                      /\ seq[i].timeSlot <= seq[j].timeSlot}

\* formatTime(hour, min) of the admin dashboard: hour 24 is shown as 00
adminFormatTime(hour, min) == <<IF hour >= 24 THEN hour - 24 ELSE hour, min>>

\* reservations.map(...) of the admin list: the row with its display times
\* (the localized dateString is left out)
formattedReservation(reservation) ==
  LET startHour == (reservation.timeSlot \div 4) + 18
      startMin == (reservation.timeSlot % 4) * 15
      endHour == startHour + 3
      endMin == startMin
  IN [reservation |-> reservation,
      startTime |-> adminFormatTime(startHour, startMin),
      endTime |-> adminFormatTime(endHour, endMin)]

\* router.post('/reservations', authenticateAdmin, ...): the CONFIRMED rows,
\* of one date when the body gives a date (0 : no date in the body)
AdminListReservations(date, credentials, adminPassword) ==
  /\ req' = [op |-> "adminList", date |-> date, credentials |-> credentials,
             adminPassword |-> adminPassword]
  /\ UNCHANGED <<store, nextId, sms, pc, creq, snap, result, cresp>>
  /\ LET auth == authenticateAdmin(credentials, adminPassword)
         whereClause ==
           {r \in store : /\ r.status = "CONFIRMED"
                          /\ date # 0 => r.date = date}
     IN IF auth # 0
          THEN resp' = [op |-> "adminList", status |-> auth]
          ELSE \E reservations \in OrderedBy(whereClause) :
                 resp' = [op |-> "adminList", status |-> 200,
                          reservations |->
                            [i \in DOMAIN reservations |->
                               formattedReservation(reservations[i])],
                          totalCount |-> Len(reservations)]

\* hours of the daily summary: for (let hour = 18; hour <= 27; hour++)
SummaryHours == 18..27

\* startSlot <= hourEndSlot && endSlot >= hourStartSlot
overlapsHour(reservation, hour) ==
  LET startSlot == reservation.timeSlot
      endSlot == startSlot + 11
      hourStartSlot == (hour - 18) * 4
      hourEndSlot == hourStartSlot + 3
  IN startSlot <= hourEndSlot /\ endSlot >= hourStartSlot

\* hourlyOccupancy of the daily summary, keyed by the displayed hour; the
\* details of a reservation are filed under the hour it starts in
hourlyOccupancy(reservations) ==
  [timeKey \in {adminFormatTime(hour, 0)[1] : hour \in SummaryHours} |->
     LET hour == CHOOSE h \in SummaryHours : adminFormatTime(h, 0)[1] = timeKey
         totalOccupied ==
           SumPartySize({r \in reservations : overlapsHour(r, hour)})
     IN [occupiedSeats |-> totalOccupied,
         availableSeats |-> maxCapacity - totalOccupied,
         reservations |->
           {formattedReservation(r) :
              r \in {x \in reservations :
                       /\ overlapsHour(x, hour)
                       /\ (x.timeSlot \div 4) + 18 = hour}}]]

\* router.post('/summary', authenticateAdmin, ...) for a body with a date
AdminSummary(date, credentials, adminPassword) ==
  /\ req' = [op |-> "adminSummary", date |-> date,
             credentials |-> credentials, adminPassword |-> adminPassword]
  /\ UNCHANGED <<store, nextId, sms, pc, creq, snap, result, cresp>>
  /\ LET auth == authenticateAdmin(credentials, adminPassword)
         reservations == findManyConfirmed(store, date)
     IN IF auth # 0
          THEN resp' = [op |-> "adminSummary", status |-> auth]
          ELSE resp' = [op |-> "adminSummary", status |-> 200,
                        date |-> date,
                        totalReservations |-> Cardinality(reservations),
                        totalGuests |-> SumPartySize(reservations),
                        hourlyOccupancy |-> hourlyOccupancy(reservations)]

\* status transition CONFIRMED -> NO_SHOW | COMPLETED (terminal), made by the
\* admin surface outside the core; the row keeps every other field
SetStatus(id, status) ==
  /\ req' = [op |-> "setStatus", id |-> id, status |-> status]
  /\ UNCHANGED <<nextId, sms, pc, creq, snap, result, cresp>>
  /\ LET existingReservation ==
           {r \in findUnique(store, id) : r.status = "CONFIRMED"}
     IN IF existingReservation = {}
          THEN /\ resp' = [op |-> "setStatus", status |-> 404]
               /\ UNCHANGED store
          ELSE /\ store' = (store \ existingReservation)
                             \cup {[r EXCEPT !.status = status] :
                                     r \in existingReservation}
               /\ resp' = [op |-> "setStatus", status |-> 200]

\* variant: the phone is dropped from the where clause
findManyWhereAnyPhone(rows, query) ==
  {r \in rows : /\ query.date # 0 => r.date = query.date
                /\ query.status # "" => r.status = query.status}

\* findMany({ where, orderBy: [{ date: 'asc' }, { timeSlot: 'asc' }] }):
\* where = { phone } plus date and status when the query gives them ("" and
\* 0 stand for an absent parameter)
findManyWhere(rows, query) ==
  {r \in rows : /\ r.phone = query.phone
                /\ query.date # 0 => r.date = query.date
                /\ query.status # "" => r.status = query.status}

\* variant: the phone check is missing and an empty where clause is used
ListReservationsWithoutPhoneCheck(query) ==
  /\ req' = [op |-> "list", query |-> query]
  /\ UNCHANGED <<store, nextId, sms, pc, creq, snap, result, cresp>>
  /\ \E reservations \in OrderedBy(store) :
       resp' = [op |-> "list", status |-> 200,
                reservations |-> reservations]

\* router.get('/') : list the reservations of a phone number
ListReservations(query) ==
  /\ req' = [op |-> "list", query |-> query]
  /\ UNCHANGED <<store, nextId, sms, pc, creq, snap, result, cresp>>
  /\ IF query.phone = ""
       THEN resp' = [op |-> "list", status |-> 400]
       ELSE IF query.status \notin {"", "CONFIRMED", "NO_SHOW", "COMPLETED"}
         THEN resp' = [op |-> "list", status |-> 500]
         ELSE \E reservations \in OrderedBy(findManyWhere(store, query)) :
                resp' = [op |-> "list", status |-> 200,
                         reservations |-> reservations]

\* router.get('/:id') : look one reservation up
GetReservation(id) ==
  /\ req' = [op |-> "get", id |-> id]
  /\ UNCHANGED <<store, nextId, sms, pc, creq, snap, result, cresp>>
  /\ LET reservation == findUnique(store, id)
     IN IF reservation = {}
          THEN resp' = [op |-> "get", status |-> 404]
          ELSE resp' = [op |-> "get", status |-> 200,
                       reservation |-> CHOOSE r \in reservation : TRUE]

\* router.get('/availability/:date')
GetAvailability(date) ==
  /\ req' = [op |-> "availability", date |-> date]
  /\ resp' = [op |-> "availability", status |-> 200, date |-> date,
              availableSlots |-> singleAvailability(store, date)]
  /\ UNCHANGED <<store, nextId, sms, pc, creq, snap, result, cresp>>

\* router.get('/batch'), on a server utcOffset hours from UTC
GetBatchAvailability(q) ==
  \E utcOffset \in UtcOffsets :
    /\ req' = [op |-> "batch", query |-> q, utcOffset |-> utcOffset]
    /\ resp' = IF q.missing # {} \/ q.startDate > q.endDate
                 THEN [op |-> "batch", status |-> 400]
                 ELSE [op |-> "batch", status |-> 200,
                       startDate |-> q.startDate, endDate |-> q.endDate,
                       availability |->
                         batchAvailability(store, q.startDate, q.endDate,
                                           utcOffset)]
    /\ UNCHANGED <<store, nextId, sms, pc, creq, snap, result, cresp>>

\* the capacity engine: create and delete
Next ==
  \/ \E b \in ValidBodies : Create(b) /\ UNCHANGED hits
  \/ \E id \in Ids : Delete(id) /\ UNCHANGED hits

Spec == Init /\ [][Next]_vars

\* request validation: boundary and invalid requests
NextValidate ==
  \/ \E b \in ValidationInputs : Create(b) /\ UNCHANGED hits
  \/ \E id \in Ids : Delete(id) /\ UNCHANGED hits

SpecValidate == Init /\ [][NextValidate]_vars

\* the read side: availability over the stores create and delete reach
NextAvail ==
  \/ \E b \in AvailBodies : Create(b) /\ UNCHANGED hits
  \/ \E id \in Ids : Delete(id) /\ UNCHANGED hits
  \/ \E date \in AvailDates : GetAvailability(date) /\ UNCHANGED hits
  \/ \E q \in BatchInputs : GetBatchAvailability(q) /\ UNCHANGED hits

SpecAvail == Init /\ [][NextAvail]_vars


\* full-capacity parties on two dates, read back through both endpoints
FullBodies ==
  {body(d, t, maxCapacity) : d \in {DateMin, DateMax}, t \in {4, 28, 35}}

NextFull ==
  \/ \E b \in FullBodies : Create(b) /\ UNCHANGED hits
  \/ \E id \in Ids : Delete(id) /\ UNCHANGED hits
  \/ \E date \in AvailDates : GetAvailability(date) /\ UNCHANGED hits
  \/ \E q \in BatchInputs : GetBatchAvailability(q) /\ UNCHANGED hits

SpecFull == Init /\ [][NextFull]_vars

\* the two delete handlers over the stores create reaches
NextAdmin ==
  \/ \E b \in AdminBodies : Create(b) /\ UNCHANGED hits
  \/ \E id \in Ids : Delete(id) /\ UNCHANGED hits
  \/ \E id \in Ids : \E c \in Credentials : \E a \in AdminPasswords :
       AdminDelete(id, c, a) /\ UNCHANGED hits

SpecAdmin == Init /\ [][NextAdmin]_vars

\* dates of the admin list (0 : no date in the body) and of the summary
AdminListDates == {0, DateMin}
AdminSummaryDates == {DateMin, DateMax}

\* the three admin operations behind authenticateAdmin
NextAdminOps ==
  \/ \E b \in AdminBodies : Create(b) /\ UNCHANGED hits
  \/ \E id \in Ids : \E c \in Credentials : \E a \in AdminPasswords :
       AdminDelete(id, c, a) /\ UNCHANGED hits
  \/ \E date \in AdminListDates : \E c \in Credentials :
       \E a \in AdminPasswords : AdminListReservations(date, c, a) /\ UNCHANGED hits
  \/ \E date \in AdminSummaryDates : \E c \in Credentials :
       \E a \in AdminPasswords : AdminSummary(date, c, a) /\ UNCHANGED hits

SpecAdminOps == Init /\ [][NextAdminOps]_vars

\* full-capacity bookings three hours apart (18:00, 21:00, 24:00, 27:00) and
\* two bookings in between; the table is empty at first, or already holds
\* the accepted bookings of 18:00 and 21:00
ApartBodies ==
  {body(DateMin, t, maxCapacity) : t \in {0, 12, 24, 36}}
    \cup {body(DateMin, 6, maxCapacity), body(DateMin, 30, 2)}

SeededIds == {-1, 0}

SeededRows ==
  {newRow(-1, body(DateMin, 0, maxCapacity)),
   newRow(0, body(DateMin, 12, maxCapacity))}

InitApart ==
  /\ \/ store = {} /\ sms = {}
     \/ /\ store = SeededRows
        /\ sms = {[kind |-> "confirmation", id |-> id] : id \in SeededIds}
  /\ nextId = 1
  /\ req = [op |-> "none"]
  /\ resp = [op |-> "none"]
  /\ pc = [p \in Procs |-> "idle"]
  /\ creq = [p \in Procs |-> NoBody]
  /\ snap = [p \in Procs |-> {}]
  /\ result = [p \in Procs |-> NoBody]
  /\ cresp = [p \in Procs |-> 0]
  /\ hits = NoHits

NextApart ==
  \/ \E b \in ApartBodies : Create(b) /\ UNCHANGED hits
  \/ \E id \in Ids \cup SeededIds : Delete(id) /\ UNCHANGED hits

SpecApart == InitApart /\ [][NextApart]_vars

\* start slots around the ends of the schema's range and of the late window
SlotRangeBodies ==
  {body(DateMin, t, 2) :
     t \in {MinTimeSlot - 1, MinTimeSlot, lateThreshold, lateThreshold + 1,
            lateThreshold + 2, MaxTimeSlot, MaxTimeSlot + 1}}

NextSlotRange ==
  \/ \E b \in SlotRangeBodies : Create(b) /\ UNCHANGED hits
  \/ \E id \in Ids : Delete(id) /\ UNCHANGED hits

SpecSlotRange == Init /\ [][NextSlotRange]_vars

(***************************************************************************)
(* The application: the middleware stack of index.js in registration       *)
(* order.  A request runs through the layers that match it until one of    *)
(* them answers; the routes of the reservations router always answer.      *)
(***************************************************************************)
appStack ==
  <<[kind |-> "limiter", name |-> "general", mounts |-> Mounts \cup {"/admin"}, methods |-> {"GET", "POST", "DELETE"}],
    [kind |-> "router", name |-> "reservationsRouter", mounts |-> {"/reservations"}, methods |-> {"GET", "POST", "DELETE"}],
    [kind |-> "router", name |-> "reservationsRouter", mounts |-> {"/api/reservations"}, methods |-> {"GET", "POST", "DELETE"}],
    [kind |-> "limiter", name |-> "admin", mounts |-> {"/admin"}, methods |-> {"GET", "POST", "DELETE"}],
    [kind |-> "router", name |-> "adminRouter", mounts |-> {"/admin"}, methods |-> {"GET", "POST", "DELETE"}],
    [kind |-> "limiter", name |-> "reservation", mounts |-> {"/reservations"}, methods |-> {"POST"}],
    [kind |-> "limiter", name |-> "reservation", mounts |-> {"/api/reservations"}, methods |-> {"POST"}]>>

\* rateLimit({ windowMs, max }) with skip() false: the request is counted,
\* and answered 429 when the count exceeds max (the count stops at max + 1)
RECURSIVE runStack(_, _, _, _)
runStack(stack, i, request, h) ==
  IF i > Len(stack) THEN [hits |-> h, by |-> "notFound"]
  ELSE LET layer == stack[i]
       IN IF ~(request.mount \in layer.mounts
                 /\ request.method \in layer.methods)
            THEN runStack(stack, i + 1, request, h)
            ELSE IF layer.kind = "router"
              THEN [hits |-> h, by |-> layer.name]
              ELSE LET totalHits == h[layer.name] + 1
                       counted ==
                         [h EXCEPT ![layer.name] =
                            IF totalHits > limiterMax[layer.name]
                              THEN limiterMax[layer.name] + 1
                              ELSE totalHits]
                   IN IF totalHits > limiterMax[layer.name]
                        THEN [hits |-> counted, by |-> layer.name]
                        ELSE runStack(stack, i + 1, request, counted)

\* POST /reservations and POST /api/reservations
PostReservations(mount, b) ==
  LET r == runStack(appStack, 1, [method |-> "POST", mount |-> mount], hits)
  IN /\ hits' = r.hits
     /\ IF r.by = "reservationsRouter"
          THEN Create(b)
          ELSE /\ req' = [op |-> "create", body |-> b]
               /\ resp' = [op |-> "create",
                           status |-> IF r.by = "notFound" THEN 404 ELSE 429,
                           limiter |-> r.by]
               /\ UNCHANGED <<store, nextId, sms, pc, creq, snap, result, cresp>>

\* DELETE /reservations/:id and DELETE /api/reservations/:id
DeleteReservations(mount, id) ==
  LET r == runStack(appStack, 1, [method |-> "DELETE", mount |-> mount], hits)
  IN /\ hits' = r.hits
     /\ IF r.by = "reservationsRouter"
          THEN Delete(id)
          ELSE /\ req' = [op |-> "delete", id |-> id]
               /\ resp' = [op |-> "delete",
                           status |-> IF r.by = "notFound" THEN 404 ELSE 429,
                           limiter |-> r.by]
               /\ UNCHANGED <<store, nextId, sms, pc, creq, snap, result, cresp>>

\* the window of a limiter ends and its count starts again
WindowExpires(l) ==
  /\ hits[l] > 0
  /\ hits' = [hits EXCEPT ![l] = 0]
  /\ req' = [op |-> "window", limiter |-> l]
  /\ resp' = [op |-> "none"]
  /\ UNCHANGED <<store, nextId, sms, pc, creq, snap, result, cresp>>

\* a full party, a second one for the same table, and a request without name
AppBodies ==
  {body(DateMin, 8, maxCapacity), body(DateMin, 12, 1),
   [body(DateMin, 8, 2) EXCEPT !.missing = {"name"}]}

NextApp ==
  \/ \E m \in Mounts : \E b \in AppBodies : PostReservations(m, b)
  \/ \E m \in Mounts : \E id \in Ids : DeleteReservations(m, id)
  \/ \E l \in Limiters : WindowExpires(l)

SpecApp == Init /\ [][NextApp]_vars

\* every operation of the two routers that can reach the reservation table
FrameBodies ==
  {body(DateMin, 8, 4), body(DateMin, 12, 3),
   [body(DateMin, 8, 2) EXCEPT !.partySize = MaxPartySize + 1]}

FrameQueries ==
  {[phone |-> "", date |-> 0, status |-> ""],
   [phone |-> "+1234567890", date |-> 0, status |-> ""]}

FrameBatchInputs ==
  {[startDate |-> DateMin, endDate |-> DateMin, missing |-> {}],
   [startDate |-> DateMax, endDate |-> DateMin, missing |-> {}]}

NextFrame ==
  \/ \E b \in FrameBodies : Create(b) /\ UNCHANGED hits
  \/ \E id \in Ids : Delete(id) /\ UNCHANGED hits
  \/ \E id \in Ids : \E c \in NotifyCredentials : AdminDelete(id, c, "admin-secret") /\ UNCHANGED hits
  \/ \E id \in Ids : GetReservation(id) /\ UNCHANGED hits
  \/ \E q \in FrameQueries : ListReservations(q) /\ UNCHANGED hits
  \/ GetAvailability(DateMin) /\ UNCHANGED hits
  \/ \E q \in FrameBatchInputs : GetBatchAvailability(q) /\ UNCHANGED hits

SpecFrame == Init /\ [][NextFrame]_vars

\* the daily summary over bookings that start inside an hour
SummaryBodies ==
  {body(DateMin, 2, maxCapacity), body(DateMin, 14, maxCapacity),
   body(DateMin, 8, 2), body(DateMax, 30, 3)}

NextSummary ==
  \/ \E b \in SummaryBodies : Create(b) /\ UNCHANGED hits
  \/ \E id \in Ids : Delete(id) /\ UNCHANGED hits
  \/ \E date \in AdminSummaryDates : \E c \in NotifyCredentials : AdminSummary(date, c, "admin-secret") /\ UNCHANGED hits

SpecSummary == Init /\ [][NextSummary]_vars

\* batch availability of one date next to the create requests for it
AgreeBodies == {body(DateMin, t, p) : t \in {0, 8, 28}, p \in {2, 4}}

NextAgree ==
  \/ \E b \in AgreeBodies : Create(b) /\ UNCHANGED hits
  \/ \E id \in Ids : Delete(id) /\ UNCHANGED hits
  \/ \E q \in FrameBatchInputs : GetBatchAvailability(q) /\ UNCHANGED hits

SpecAgree == Init /\ [][NextAgree]_vars

\* stores holding rows that are no longer CONFIRMED
NextStatus ==
  \/ \E b \in StatusBodies : Create(b) /\ UNCHANGED hits
  \/ \E id \in Ids : \E s \in TerminalStatuses : SetStatus(id, s) /\ UNCHANGED hits
  \/ \E date \in AvailDates : GetAvailability(date) /\ UNCHANGED hits
  \/ \E q \in StatusBatchInputs : GetBatchAvailability(q) /\ UNCHANGED hits

SpecStatus == Init /\ [][NextStatus]_vars

\* the reservation list over the stores create and delete reach
NextList ==
  \/ \E b \in ListBodies : Create(b) /\ UNCHANGED hits
  \/ \E id \in Ids : Delete(id) /\ UNCHANGED hits
  \/ \E q \in ListQueries : ListReservations(q) /\ UNCHANGED hits

SpecList == Init /\ [][NextList]_vars

(***************************************************************************)
(* Concurrent create requests.  Each request p runs the POST handler; the  *)
(* handler yields at every await, so the steps of different requests       *)
(* interleave.  prisma.$transaction is called without an isolationLevel,   *)
(* so the transaction runs at the default level of the datasource          *)
(* (provider "postgresql": READ COMMITTED): findMany reads the rows        *)
(* committed so far, takes no lock, and the insert of one transaction      *)
(* never conflicts with the insert of another.                             *)
(*   pc[p]: "idle" -> "tx" -> "read" -> "committed" -> "done"              *)
(*   result[p]: the row the transaction of request p returned              *)
(*   cresp[p]: the HTTP status sent to request p (0: none yet)             *)
(***************************************************************************)
\* requests offered concurrently: one date, overlapping start slots
ConcBodies == {body(DateMin, t, p) : t \in {4, 8}, p \in {2, 4}}

\* validateRequest, then prisma.$transaction(async (tx) => ...) starts
Receive(p, b) ==
  /\ pc[p] = "idle"
  /\ creq' = [creq EXCEPT ![p] = b]
  /\ IF validateRequest(b)
       THEN /\ pc' = [pc EXCEPT ![p] = "tx"]
            /\ UNCHANGED cresp
       ELSE /\ pc' = [pc EXCEPT ![p] = "done"]
            /\ cresp' = [cresp EXCEPT ![p] = 400]
  /\ UNCHANGED <<store, nextId, sms, req, resp, snap, result>>

\* await tx.reservation.findMany({ where: { date, status: 'CONFIRMED' } })
TxFindMany(p) ==
  /\ pc[p] = "tx"
  /\ snap' = [snap EXCEPT ![p] = findManyConfirmed(store, creq[p].date)]
  /\ pc' = [pc EXCEPT ![p] = "read"]
  /\ UNCHANGED <<store, nextId, sms, req, resp, creq, result, cresp>>

\* variant: the confirmation is sent inside the transaction, before the
\* capacity loop has decided
TxCheckAndCreateNotifyingFirst(p) ==
  /\ pc[p] = "read"
  /\ sms' = sms \cup {[kind |-> "confirmation", id |-> nextId,
                       success |-> TRUE, n |-> 1]}
  /\ LET chk == checkCapacity(snap[p], creq[p].timeSlot, creq[p].partySize)
     IN IF ~chk.ok
          THEN /\ pc' = [pc EXCEPT ![p] = "done"]
               /\ cresp' = [cresp EXCEPT ![p] = 409]
               /\ UNCHANGED <<store, nextId, result>>
          ELSE /\ store' = store \cup {newRow(nextId, creq[p])}
               /\ nextId' = nextId + 1
               /\ result' = [result EXCEPT ![p] = newRow(nextId, creq[p])]
               /\ pc' = [pc EXCEPT ![p] = "committed"]
               /\ UNCHANGED cresp
  /\ UNCHANGED <<req, resp, creq, snap>>

\* the capacity loop over the rows read, then either the throw (rollback,
\* 409) or tx.reservation.create and the commit
TxCheckAndCreate(p) ==
  /\ pc[p] = "read"
  /\ LET chk == checkCapacity(snap[p], creq[p].timeSlot, creq[p].partySize)
     IN IF ~chk.ok
          THEN /\ pc' = [pc EXCEPT ![p] = "done"]
               /\ cresp' = [cresp EXCEPT ![p] = 409]
               /\ UNCHANGED <<store, nextId, result>>
          ELSE /\ store' = store \cup {newRow(nextId, creq[p])}
               /\ nextId' = nextId + 1
               /\ result' = [result EXCEPT ![p] = newRow(nextId, creq[p])]
               /\ pc' = [pc EXCEPT ![p] = "committed"]
               /\ UNCHANGED cresp
  /\ UNCHANGED <<sms, req, resp, creq, snap>>

\* smsService.sendConfirmation(phone, result); res.status(201), with
\* SMS_COST_SAVING not set to 'true'
Respond(p) ==
  /\ pc[p] = "committed"
  /\ sms' = sms \cup {[kind |-> "confirmation", id |-> result[p].id]}
  /\ pc' = [pc EXCEPT ![p] = "done"]
  /\ cresp' = [cresp EXCEPT ![p] = 201]
  /\ UNCHANGED <<store, nextId, req, resp, creq, snap, result>>

NextConc ==
  \/ \E p \in Procs : \E b \in ConcBodies : Receive(p, b) /\ UNCHANGED hits
  \/ \E p \in Procs : TxFindMany(p) /\ UNCHANGED hits
  \/ \E p \in Procs : TxCheckAndCreate(p) /\ UNCHANGED hits
  \/ \E p \in Procs : Respond(p) /\ UNCHANGED hits

SpecConc == Init /\ [][NextConc]_vars

\* concurrent create requests for start slots of the late window, and deletes
LateConcBodies == {body(DateMin, 28, 4), body(DateMin, 35, 4)}

NextConcLate ==
  \/ \E p \in Procs : \E b \in LateConcBodies : Receive(p, b) /\ UNCHANGED hits
  \/ \E p \in Procs : TxFindMany(p) /\ UNCHANGED hits
  \/ \E p \in Procs : TxCheckAndCreate(p) /\ UNCHANGED hits
  \/ \E p \in Procs : Respond(p) /\ UNCHANGED hits
  \/ \E id \in Ids : Delete(id) /\ UNCHANGED hits

SpecConcLate == Init /\ [][NextConcLate]_vars


(***************************************************************************)
(* The handlers step by step, one request at a time: the request in        *)
(* progress uses slot Worker of pc, creq, result and cresp, and every      *)
(* await of a handler is a step, so the order of the store change and of   *)
(* the call of the SMS service is visible.                                 *)
(*   create:        "idle" -> "tx" -> "read" -> "committed" -> "done"      *)
(*   delete:        "idle" -> "found" -> "deleted" -> "done"               *)
(*   admin delete:  "idle" -> "adminFound" -> "adminNotified" -> "done"    *)
(* sms holds one record per call of the SMS service: the kind, the id of   *)
(* the reservation passed, n (the n-th call of that kind for that id) and  *)
(* success (the success field of the object the service returns; the       *)
(* service catches its own errors and never throws).                       *)
(***************************************************************************)
Worker == 1

smsCall(kind, id, success) ==
  [kind |-> kind, id |-> id, success |-> success,
   n |-> 1 + Cardinality({e \in sms : e.kind = kind /\ e.id = id})]

\* variant: with SMS_COST_SAVING the confirmation is sent to parties above 4
SendConfirmationAboveFour(p) ==
  /\ pc[p] = "committed"
  /\ \E costSaving \in BOOLEAN : \E delivered \in BOOLEAN :
       LET shouldSendSMS ==
             IF costSaving THEN result[p].partySize > 4 ELSE TRUE
       IN /\ sms' = IF shouldSendSMS
                      THEN sms \cup {smsCall("confirmation", result[p].id,
                                             delivered)}
                      ELSE sms
          /\ req' = [op |-> "create", body |-> creq[p],
                     costSaving |-> costSaving]
          /\ resp' = [op |-> "create", status |-> 201,
                      reservation |-> result[p],
                      sms |-> IF ~shouldSendSMS THEN "not_sent"
                              ELSE IF delivered THEN "sent" ELSE "failed"]
  /\ pc' = [pc EXCEPT ![p] = "done"]
  /\ cresp' = [cresp EXCEPT ![p] = 201]
  /\ UNCHANGED <<store, nextId, creq, snap, result>>

\* router.post('/') after the transaction: shouldSendSMS
\* (process.env.SMS_COST_SAVING === 'true' ? partySize >= 4 : true),
\* smsService.sendConfirmation(phone, result), res.status(201)
SendConfirmation(p) ==
  /\ pc[p] = "committed"
  /\ \E costSaving \in BOOLEAN : \E delivered \in BOOLEAN :
       LET shouldSendSMS ==
             IF costSaving THEN result[p].partySize >= 4 ELSE TRUE
       IN /\ sms' = IF shouldSendSMS
                      THEN sms \cup {smsCall("confirmation", result[p].id,
                                             delivered)}
                      ELSE sms
          /\ req' = [op |-> "create", body |-> creq[p],
                     costSaving |-> costSaving]
          /\ resp' = [op |-> "create", status |-> 201,
                      reservation |-> result[p],
                      sms |-> IF ~shouldSendSMS THEN "not_sent"
                              ELSE IF delivered THEN "sent" ELSE "failed"]
  /\ pc' = [pc EXCEPT ![p] = "done"]
  /\ cresp' = [cresp EXCEPT ![p] = 201]
  /\ UNCHANGED <<store, nextId, creq, snap, result>>

\* router.delete('/:id') : findUnique, 404 when there is no such row
DeleteFind(p, id) ==
  /\ pc[p] = "idle"
  /\ creq' = [creq EXCEPT ![p] = [op |-> "delete", id |-> id]]
  /\ IF findUnique(store, id) = {}
       THEN /\ pc' = [pc EXCEPT ![p] = "done"]
            /\ cresp' = [cresp EXCEPT ![p] = 404]
            /\ req' = [op |-> "delete", id |-> id]
            /\ resp' = [op |-> "delete", status |-> 404]
            /\ UNCHANGED result
       ELSE /\ pc' = [pc EXCEPT ![p] = "found"]
            /\ result' = [result EXCEPT ![p] =
                            CHOOSE r \in findUnique(store, id) : TRUE]
            /\ UNCHANGED <<cresp, req, resp>>
  /\ UNCHANGED <<store, nextId, sms, snap>>

\* await prisma.reservation.delete({ where: { id } }): when the row is no
\* longer there (another request deleted it after findUnique), delete throws
\* and the catch block answers 500
DeleteRow(p) ==
  /\ pc[p] = "found"
  /\ IF result[p] \in store
       THEN /\ store' = store \ {result[p]}
            /\ pc' = [pc EXCEPT ![p] = "deleted"]
            /\ UNCHANGED <<req, resp, cresp>>
       ELSE /\ pc' = [pc EXCEPT ![p] = "done"]
            /\ cresp' = [cresp EXCEPT ![p] = 500]
            /\ req' = creq[p]
            /\ resp' = [op |-> "delete", status |-> 500]
            /\ UNCHANGED store
  /\ UNCHANGED <<nextId, sms, creq, snap, result>>

\* variant: a failed cancellation SMS is answered with 500
SendCancellationEscalating(p) ==
  /\ pc[p] = "deleted"
  /\ \E delivered \in BOOLEAN :
       /\ sms' = sms \cup {smsCall("cancellation", result[p].id, delivered)}
       /\ cresp' = [cresp EXCEPT ![p] = IF delivered THEN 204 ELSE 500]
       /\ resp' = [op |-> "delete",
                   status |-> IF delivered THEN 204 ELSE 500]
  /\ req' = creq[p]
  /\ pc' = [pc EXCEPT ![p] = "done"]
  /\ UNCHANGED <<store, nextId, creq, snap, result>>

\* await smsService.sendCancellation(phone, existingReservation);
\* res.status(204).send() : the object returned is not looked at
SendCancellation(p) ==
  /\ pc[p] = "deleted"
  /\ \E delivered \in BOOLEAN :
       sms' = sms \cup {smsCall("cancellation", result[p].id, delivered)}
  /\ req' = creq[p]
  /\ resp' = [op |-> "delete", status |-> 204]
  /\ pc' = [pc EXCEPT ![p] = "done"]
  /\ cresp' = [cresp EXCEPT ![p] = 204]
  /\ UNCHANGED <<store, nextId, creq, snap, result>>

\* admin router.delete('/reservations/:id') : authenticateAdmin, findUnique
AdminDeleteFind(p, id, credentials, adminPassword) ==
  /\ pc[p] = "idle"
  /\ creq' = [creq EXCEPT ![p] = [op |-> "adminDelete", id |-> id,
                                  credentials |-> credentials,
                                  adminPassword |-> adminPassword]]
  /\ LET auth == authenticateAdmin(credentials, adminPassword)
         status == IF auth # 0 THEN auth
                   ELSE IF findUnique(store, id) = {} THEN 404 ELSE 0
     IN IF status # 0
          THEN /\ pc' = [pc EXCEPT ![p] = "done"]
               /\ cresp' = [cresp EXCEPT ![p] = status]
               /\ req' = [op |-> "adminDelete", id |-> id,
                          credentials |-> credentials,
                          adminPassword |-> adminPassword]
               /\ resp' = [op |-> "adminDelete", status |-> status]
               /\ UNCHANGED result
          ELSE /\ pc' = [pc EXCEPT ![p] = "adminFound"]
               /\ result' = [result EXCEPT ![p] =
                               CHOOSE r \in findUnique(store, id) : TRUE]
               /\ UNCHANGED <<cresp, req, resp>>
  /\ UNCHANGED <<store, nextId, sms, snap>>

\* "Send cancellation SMS before deleting": smsResult = await
\* smsService.sendCancellation(...), inside its own try/catch; snap[p] keeps
\* smsResult for the response
AdminSendCancellation(p) ==
  /\ pc[p] = "adminFound"
  /\ \E delivered \in BOOLEAN :
       /\ sms' = sms \cup {smsCall("cancellation", result[p].id, delivered)}
       /\ snap' = [snap EXCEPT ![p] = {[success |-> delivered]}]
  /\ pc' = [pc EXCEPT ![p] = "adminNotified"]
  /\ UNCHANGED <<store, nextId, req, resp, creq, result, cresp>>

\* await prisma.reservation.delete({ where: { id } }); res.json({ message,
\* sms: smsResult.success ? 'sent' : 'failed', reservation })
AdminDeleteRow(p) ==
  /\ pc[p] = "adminNotified"
  /\ req' = creq[p]
  /\ IF result[p] \in store
       THEN /\ store' = store \ {result[p]}
            /\ resp' = [op |-> "adminDelete", status |-> 200,
                        reservation |-> result[p],
                        sms |-> IF \E smsResult \in snap[p] :
                                     smsResult.success
                                  THEN "sent" ELSE "failed"]
            /\ cresp' = [cresp EXCEPT ![p] = 200]
       ELSE /\ resp' = [op |-> "adminDelete", status |-> 500]
            /\ cresp' = [cresp EXCEPT ![p] = 500]
            /\ UNCHANGED store
  /\ pc' = [pc EXCEPT ![p] = "done"]
  /\ UNCHANGED <<nextId, sms, creq, snap, result>>

\* the response has been sent; the next request may start
Finish(p) ==
  /\ pc[p] = "done"
  /\ pc' = [pc EXCEPT ![p] = "idle"]
  /\ creq' = [creq EXCEPT ![p] = NoBody]
  /\ snap' = [snap EXCEPT ![p] = {}]
  /\ result' = [result EXCEPT ![p] = NoBody]
  /\ cresp' = [cresp EXCEPT ![p] = 0]
  /\ req' = [op |-> "none"]
  /\ resp' = [op |-> "none"]
  /\ UNCHANGED <<store, nextId, sms>>

NextNotify ==
  \/ \E b \in NotifyBodies : nextId <= MaxReservations /\ Receive(Worker, b) /\ UNCHANGED hits
  \/ TxFindMany(Worker) /\ UNCHANGED hits
  \/ TxCheckAndCreate(Worker) /\ UNCHANGED hits
  \/ SendConfirmation(Worker) /\ UNCHANGED hits
  \/ \E id \in Ids : DeleteFind(Worker, id) /\ UNCHANGED hits
  \/ DeleteRow(Worker) /\ UNCHANGED hits
  \/ SendCancellation(Worker) /\ UNCHANGED hits
  \/ \E id \in Ids : \E c \in NotifyCredentials :
       AdminDeleteFind(Worker, id, c, "admin-secret") /\ UNCHANGED hits
  \/ AdminSendCancellation(Worker) /\ UNCHANGED hits
  \/ AdminDeleteRow(Worker) /\ UNCHANGED hits
  \/ Finish(Worker) /\ UNCHANGED hits

SpecNotify == Init /\ [][NextNotify]_vars

\* concurrent delete requests: Worker books the reservations one at a time,
\* every other request slot carries one delete request
ConcDeleteBodies == {body(DateMin, 8, 2)}

Deleters == Procs \ {Worker}

AdminSecret == [password |-> "admin-secret", type |-> "string"]

\* customer deletes only
NextConcDelete ==
  \/ \E b \in ConcDeleteBodies : nextId <= MaxReservations /\ Receive(Worker, b) /\ UNCHANGED hits
  \/ TxFindMany(Worker) /\ UNCHANGED hits
  \/ TxCheckAndCreate(Worker) /\ UNCHANGED hits
  \/ SendConfirmation(Worker) /\ UNCHANGED hits
  \/ Finish(Worker) /\ UNCHANGED hits
  \/ \E p \in Deleters : \E id \in Ids : DeleteFind(p, id) /\ UNCHANGED hits
  \/ \E p \in Deleters : DeleteRow(p) /\ UNCHANGED hits
  \/ \E p \in Deleters : SendCancellation(p) /\ UNCHANGED hits

SpecConcDelete == Init /\ [][NextConcDelete]_vars

\* customer deletes and admin deletes of the first reservation booked
NextConcCancel ==
  \/ \E b \in ConcDeleteBodies : nextId = 1 /\ Receive(Worker, b) /\ UNCHANGED hits
  \/ TxFindMany(Worker) /\ UNCHANGED hits
  \/ TxCheckAndCreate(Worker) /\ UNCHANGED hits
  \/ SendConfirmation(Worker) /\ UNCHANGED hits
  \/ Finish(Worker) /\ UNCHANGED hits
  \/ \E p \in Deleters : \E id \in Ids : DeleteFind(p, id) /\ UNCHANGED hits
  \/ \E p \in Deleters : DeleteRow(p) /\ UNCHANGED hits
  \/ \E p \in Deleters : SendCancellation(p) /\ UNCHANGED hits
  \/ \E p \in Deleters : \E id \in Ids : AdminDeleteFind(p, id, AdminSecret, "admin-secret") /\ UNCHANGED hits
  \/ \E p \in Deleters : AdminSendCancellation(p) /\ UNCHANGED hits
  \/ \E p \in Deleters : AdminDeleteRow(p) /\ UNCHANGED hits

SpecConcCancel == Init /\ [][NextConcCancel]_vars

(***************************************************************************)
(* The slot calendar on its own: a start slot is drawn and one of the      *)
(* copies of the occupied-slot computation is applied to it.               *)
(***************************************************************************)
InitSlots ==
  /\ store = {}
  /\ nextId = 1
  /\ sms = {}
  /\ req \in {[op |-> "slots", timeSlot |-> t] : t \in 0..maxSlot}
  /\ resp = [op |-> "none"]
  /\ pc = [p \in Procs |-> "idle"]
  /\ creq = [p \in Procs |-> NoBody]
  /\ snap = [p \in Procs |-> {}]
  /\ result = [p \in Procs |-> NoBody]
  /\ cresp = [p \in Procs |-> 0]
  /\ hits = NoHits

ApplyOccupiedSlots ==
  /\ resp' = [op |-> "slots", copy |-> "new",
              slots |-> occupiedSlots(req.timeSlot)]
  /\ UNCHANGED <<store, nextId, sms, req, pc, creq, snap, result, cresp>>

ApplyCalculateOccupiedSlots ==
  /\ resp' = [op |-> "slots", copy |-> "create",
              slots |-> calculateOccupiedSlots(req.timeSlot)]
  /\ UNCHANGED <<store, nextId, sms, req, pc, creq, snap, result, cresp>>

ApplyCalculateOccupiedSlotsSingle ==
  /\ resp' = [op |-> "slots", copy |-> "single",
              slots |-> calculateOccupiedSlotsSingle(req.timeSlot)]
  /\ UNCHANGED <<store, nextId, sms, req, pc, creq, snap, result, cresp>>

ApplyCalculateOccupiedSlotsBatch ==
  /\ resp' = [op |-> "slots", copy |-> "batch",
              slots |-> calculateOccupiedSlotsBatch(req.timeSlot)]
  /\ UNCHANGED <<store, nextId, sms, req, pc, creq, snap, result, cresp>>

NextSlots ==
  \/ ApplyOccupiedSlots /\ UNCHANGED hits
  \/ ApplyCalculateOccupiedSlots /\ UNCHANGED hits
  \/ ApplyCalculateOccupiedSlotsSingle /\ UNCHANGED hits
  \/ ApplyCalculateOccupiedSlotsBatch /\ UNCHANGED hits

SpecSlots == InitSlots /\ [][NextSlots]_vars

(***************************************************************************)
(* Time labels of the SMS service.                                         *)
(***************************************************************************)
\* n.toString().padStart(2, '0') for 0 <= n < 100: the two digits
padStart2(n) == <<n \div 10, n % 10>>

\* variant: hour 24 is shown as 00
formatTimeSlotMidnightZero(timeSlot) ==
  LET startHour == (timeSlot \div 4) + 18
      startMin == (timeSlot % 4) * 15
      endHour == ((timeSlot + 1) \div 4) + 18
      endMin == ((timeSlot + 1) % 4) * 15
      smsFormatTime(hour, min) ==
        LET displayHour == IF hour >= 24 THEN hour - 24 ELSE hour
        IN padStart2(displayHour) \o padStart2(min)
  IN <<smsFormatTime(startHour, startMin), smsFormatTime(endHour, endMin)>>

\* SMSService.formatTimeSlot: "HH:MM-HH:MM" as <<start digits, end digits>>
formatTimeSlot(timeSlot) ==
  LET startHour == (timeSlot \div 4) + 18
      startMin == (timeSlot % 4) * 15
      endHour == ((timeSlot + 1) \div 4) + 18
      endMin == ((timeSlot + 1) % 4) * 15
      smsFormatTime(hour, min) ==
        LET displayHour == IF hour > 24 THEN hour - 24 ELSE hour
        IN padStart2(displayHour) \o padStart2(min)
  IN <<smsFormatTime(startHour, startMin), smsFormatTime(endHour, endMin)>>

ApplyFormatTimeSlot ==
  /\ resp' = [op |-> "format", copy |-> "sms",
              label |-> formatTimeSlot(req.timeSlot)]
  /\ UNCHANGED <<store, nextId, sms, req, pc, creq, snap, result, cresp>>

\* the time label of the availability listing, for the same slot
ApplySlotTimeLabel ==
  /\ resp' = [op |-> "format", copy |-> "availability",
              label |-> slotTimeLabel(req.timeSlot)]
  /\ UNCHANGED <<store, nextId, sms, req, pc, creq, snap, result, cresp>>

NextFormat ==
  \/ ApplyFormatTimeSlot /\ UNCHANGED hits
  \/ ApplySlotTimeLabel /\ UNCHANGED hits

SpecFormat == InitSlots /\ [][NextFormat]_vars


(***************************************************************************)
(* Vocabulary of the properties.                                           *)
(***************************************************************************)
Slots == 0..maxSlot

\* the occupied-slot set of a reservation starting at slot t
OccupiedSet(t) ==
  IF t <= 27 THEN {s \in Slots : t <= s /\ s <= t + 11}
             ELSE {s \in Slots : t <= s}

\* used(s): the party-size total of the CONFIRMED rows of date d occupying s
Used(rows, d, s) ==
  SumPartySize({r \in rows : /\ r.date = d
                             /\ r.status = "CONFIRMED"
                             /\ s \in OccupiedSet(r.timeSlot)})

SetMax(S) == CHOOSE x \in S : \A y \in S : y <= x
SetMin(S) == CHOOSE x \in S : \A y \in S : x <= y

StoredDates == {r.date : r \in store}

\* the entry a batch response holds for date d of its range: the handler
\* files it under dateKey
BatchEntry(d) == resp.availability[dateKey(d, req.utcOffset)]

(***************************************************************************)
(* C1. With requests executed one at a time, for every date and every slot *)
(* 0..39 the party-size total of the CONFIRMED reservations occupying the  *)
(* slot is at most maxCapacity (6).                                        *)
(***************************************************************************)
C1_CapacityInvariant ==
  \A d \in StoredDates : \A s \in Slots : Used(store, d, s) <= 6

\* two reservations with different start slots fill a shared slot
C1_Witness ==
  \E a \in store : \E b \in store :
    /\ a.date = b.date /\ a.timeSlot < b.timeSlot
    /\ b.timeSlot \in OccupiedSet(a.timeSlot)
    /\ Used(store, a.date, b.timeSlot) = 6

(***************************************************************************)
(* C2. Concurrent create requests for overlapping slots of one date are    *)
(* serialized: whenever two requests have both passed the capacity check   *)
(* and committed, the CONFIRMED party-size total stays at most 6 at every  *)
(* slot they share, under every interleaving of the read step and the      *)
(* insert step.                                                            *)
(***************************************************************************)
Passed(p) == pc[p] \in {"committed", "done"} /\ result[p] # NoBody

C2_ConcurrentCreatesSerialized ==
  \A p \in Procs : \A q \in Procs :
    (p # q /\ Passed(p) /\ Passed(q) /\ result[p].date = result[q].date)
      => \A s \in OccupiedSet(result[p].timeSlot)
                    \cap OccupiedSet(result[q].timeSlot) :
           Used(store, result[p].date, s) <= maxCapacity

(***************************************************************************)
(* C3. When all n requests issued at the same time are identical (same     *)
(* date, slot and party size p) and the date was empty, exactly            *)
(* floor(6/p) of them (all n when n is smaller) succeed and every other    *)
(* one ends in a capacity conflict.                                        *)
(***************************************************************************)
AllDone == \A p \in Procs : pc[p] = "done"
Identical == \A p \in Procs : creq[p] = creq[1]
Succeeded == {p \in Procs : cresp[p] = 201}
Conflicted == {p \in Procs : cresp[p] = 409}

C3_IdenticalConcurrentCreates ==
  (AllDone /\ Identical)
    => LET quota == maxCapacity \div creq[1].partySize
       IN /\ Cardinality(Succeeded) =
               IF NumProcs <= quota THEN NumProcs ELSE quota
          /\ Succeeded \cup Conflicted = Procs

(***************************************************************************)
(* C4. A validated create request (date d, start slot t, party size p)     *)
(* succeeds and inserts the reservation if and only if used(s) + p <= 6    *)
(* for every slot s of occupiedSlots(t), overlapping reservations with     *)
(* other start slots included; otherwise it ends in a capacity conflict.   *)
(***************************************************************************)
Fits(rows, b) ==
  \A s \in OccupiedSet(b.timeSlot) :
    Used(rows, b.date, s) + b.partySize <= 6

C4_CreateStep ==
  req'.op = "create" =>
    LET b == req'.body
    IN IF Fits(store, b)
         THEN /\ resp'.status = 201
              /\ \E row \in store' :
                   /\ row \notin store
                   /\ store' = store \cup {row}
                   /\ row.date = b.date
                   /\ row.timeSlot = b.timeSlot
                   /\ row.partySize = b.partySize
                   /\ row.status = "CONFIRMED"
         ELSE resp'.status = 409

C4_CreateIffFits == [][C4_CreateStep]_vars

\* a party exactly equal to the remaining seats was accepted next to a
\* reservation with another start slot
C4_Witness ==
  /\ req.op = "create" /\ resp.status = 201
  /\ \E other \in store :
       /\ other.id # resp.reservation.id
       /\ other.date = req.body.date
       /\ other.timeSlot # req.body.timeSlot
       /\ \E s \in OccupiedSet(req.body.timeSlot) :
            /\ s \in OccupiedSet(other.timeSlot)
            /\ Used(store, req.body.date, s) = 6

(***************************************************************************)
(* C5. A capacity conflict reports the lowest-index slot s of the new      *)
(* reservation's occupied set with used(s) + partySize > maxCapacity, and  *)
(* the remaining-seat count maxCapacity - used(s) of that slot.            *)
(***************************************************************************)
Violating(rows, b) ==
  {s \in OccupiedSet(b.timeSlot) :
     Used(rows, b.date, s) + b.partySize > maxCapacity}

C5_ConflictStep ==
  (req'.op = "create" /\ resp'.status = 409) =>
    /\ Violating(store, req'.body) # {}
    /\ resp'.slot = SetMin(Violating(store, req'.body))
    /\ resp'.availableSeats =
         maxCapacity - Used(store, req'.body.date, resp'.slot)

C5_FirstViolatingSlot == [][C5_ConflictStep]_vars

\* the reported slot is not the most constrained one
C5_Witness ==
  /\ req.op = "create" /\ resp.status = 409
  /\ \E s \in OccupiedSet(req.body.timeSlot) :
       /\ s > resp.slot
       /\ Used(store, req.body.date, s) >
            Used(store, req.body.date, resp.slot)

(***************************************************************************)
(* C6. A create that ends in a capacity conflict leaves the set of stored  *)
(* reservations exactly as it was.                                         *)
(***************************************************************************)
C6_ConflictStep ==
  (req'.op = "create" /\ resp'.status = 409) => store' = store

C6_ConflictIsNoOp == [][C6_ConflictStep]_vars

\* a conflict was reported over a non-empty store
C6_Witness ==
  /\ req.op = "create" /\ resp.status = 409
  /\ store # {}

(***************************************************************************)
(* C7. occupiedSlots(s) for a start slot s <= 27 is exactly the 12 indices *)
(* s..s+11 (none beyond 39), and for s in 28..39 exactly s..39, in         *)
(* ascending order without repetition.                                     *)
(***************************************************************************)
ExpectedSlots(s) ==
  IF s <= 27 THEN [i \in 1..12 |-> s + i - 1]
             ELSE [i \in 1..(39 - s + 1) |-> s + i - 1]

C7_OccupiedSlots ==
  (resp.op = "slots" /\ resp.copy \in {"create", "batch"}) =>
    /\ resp.slots = ExpectedSlots(req.timeSlot)
    /\ \A i \in 1..Len(resp.slots) : resp.slots[i] <= 39
    /\ req.timeSlot <= 27 => Len(resp.slots) = 12

\* the last regular start slot and a late start slot have been computed
C7_Witness ==
  /\ resp.op = "slots" /\ resp.copy = "create"
  /\ req.timeSlot \in {27, 28}
  /\ Len(resp.slots) = 12

(***************************************************************************)
(* C8. A create request whose date is outside 2025-06-20..2025-07-04,      *)
(* whose timeSlot is outside 0..39, whose partySize is outside 1..6, or    *)
(* with a required field missing or malformed, is answered with a          *)
(* validation error and changes nothing; the boundary values of these      *)
(* ranges are accepted on an empty date.                                   *)
(***************************************************************************)
OutOfRange(b) ==
  \/ b.missing # {} \/ b.malformed # {}
  \/ b.date < 20 \/ b.date > 34
  \/ b.timeSlot < 0 \/ b.timeSlot > 39
  \/ b.partySize < 1 \/ b.partySize > 6
  \/ b.nameLen < 2 \/ b.nameLen > 100
  \/ b.phone \notin PhonePattern

AtBoundary(b) ==
  /\ ~OutOfRange(b)
  /\ b.date \in {20, 34} /\ b.timeSlot \in {0, 39} /\ b.partySize \in {1, 6}

C8_ValidationStep ==
  req'.op = "create" =>
    /\ OutOfRange(req'.body) =>
         /\ resp'.status = 400
         /\ store' = store /\ nextId' = nextId /\ sms' = sms
    /\ (/\ AtBoundary(req'.body)
        /\ \A r \in store : r.date # req'.body.date) =>
         /\ resp'.status = 201
         /\ \E row \in store' : row \notin store /\ row.date = req'.body.date

Bookable(rows, d, t) ==
  maxCapacity - SetMax({Used(rows, d, s) : s \in OccupiedSet(t)})

Listed(availableSlots, t) ==
  \E i \in 1..Len(availableSlots) : availableSlots[i].slot = t

SeatsOf(availableSlots, t) ==
  LET i == CHOOSE j \in 1..Len(availableSlots) : availableSlots[j].slot = t
  IN availableSlots[i].availableSeats

AvailabilityMatches(availableSlots, rows, d) ==
  \A t \in Slots :
    /\ Listed(availableSlots, t) <=> Bookable(rows, d, t) > 0
    /\ Listed(availableSlots, t) =>
         SeatsOf(availableSlots, t) = Bookable(rows, d, t)

C9_SingleAvailabilityWholeDuration ==
  resp.op = "availability" =>
    AvailabilityMatches(resp.availableSlots, store, resp.date)

C11_BatchEqualsSingle ==
  (resp.op = "batch" /\ resp.status = 200) =>
    \A d \in resp.startDate..resp.endDate :
      BatchEntry(d).availableSlots = singleAvailability(store, d)

(***************************************************************************)
(* C12. On a date holding exactly one CONFIRMED reservation, of party size *)
(* p at start slot t, the single-date availability lists every slot of     *)
(* occupiedSlots(t) with 6 - p seats (omits it when p = 6) and every other *)
(* slot with 6 seats.                                                      *)
(***************************************************************************)
RowsOn(rows, d) == {r \in rows : r.date = d /\ r.status = "CONFIRMED"}

C12_OneReservationAvailability ==
  (resp.op = "availability" /\ Cardinality(RowsOn(store, resp.date)) = 1) =>
    LET r == CHOOSE x \in RowsOn(store, resp.date) : TRUE
    IN \A s \in Slots :
         IF s \in OccupiedSet(r.timeSlot)
           THEN IF r.partySize = 6
                  THEN ~Listed(resp.availableSlots, s)
                  ELSE /\ Listed(resp.availableSlots, s)
                       /\ SeatsOf(resp.availableSlots, s) = 6 - r.partySize
           ELSE /\ Listed(resp.availableSlots, s)
                /\ SeatsOf(resp.availableSlots, s) = 6

\* a party of 4 at slot 8: 2 seats at slots 8 and 19, 6 seats at slots 0 and 20
C12_Witness ==
  /\ resp.op = "availability"
  /\ \E r \in store :
       /\ RowsOn(store, resp.date) = {r}
       /\ r.timeSlot = 8 /\ r.partySize = 4
  /\ SeatsOf(resp.availableSlots, 8) = 2
  /\ SeatsOf(resp.availableSlots, 19) = 2
  /\ SeatsOf(resp.availableSlots, 0) = 6
  /\ SeatsOf(resp.availableSlots, 20) = 6

(***************************************************************************)
(* C13. After a party of 6 is created at slot 28 on an otherwise empty     *)
(* date, slots 28..39 are all absent from that date's availability and     *)
(* slot 27 is still listed with 6 seats, in the single-date result and in  *)
(* the batch result alike.                                                 *)
(***************************************************************************)
LateFullOnly(rows, d) ==
  /\ Cardinality(RowsOn(rows, d)) = 1
  /\ \A r \in RowsOn(rows, d) : r.timeSlot = 28 /\ r.partySize = 6

LateWindowBlocked(availableSlots) ==
  /\ \A s \in 28..39 : ~Listed(availableSlots, s)
  /\ Listed(availableSlots, 27)
  /\ SeatsOf(availableSlots, 27) = 6

C13_LateFullParty ==
  /\ (resp.op = "availability" /\ LateFullOnly(store, resp.date))
       => LateWindowBlocked(resp.availableSlots)
  /\ (resp.op = "batch" /\ resp.status = 200)
       => \A d \in resp.startDate..resp.endDate :
            LateFullOnly(store, d)
              => LateWindowBlocked(BatchEntry(d).availableSlots)

(***************************************************************************)
(* C14. With a single full-capacity (6) reservation at start slot s on a   *)
(* date, the batch entry of that date omits exactly the slots of           *)
(* occupiedSlots(s) and lists every other slot (28 slots listed for s = 4, *)
(* 35 for s = 35).                                                         *)
(***************************************************************************)
C14_BatchOmitsExactlyOccupied ==
  (resp.op = "batch" /\ resp.status = 200) =>
    \A d \in resp.startDate..resp.endDate :
      \A r \in RowsOn(store, d) :
        (RowsOn(store, d) = {r} /\ r.partySize = 6) =>
          /\ \A s \in Slots :
               Listed(BatchEntry(d).availableSlots, s)
                 <=> s \notin OccupiedSet(r.timeSlot)
          /\ Len(BatchEntry(d).availableSlots) =
               40 - Cardinality(OccupiedSet(r.timeSlot))

(***************************************************************************)
(* C15. For a date with no CONFIRMED reservation, the single-date result   *)
(* and the batch entry both list all 40 slots 0..39 in ascending order,    *)
(* each with availableSeats = 6 and maxCapacity = 6.                       *)
(***************************************************************************)
FullListing(availableSlots) ==
  /\ Len(availableSlots) = 40
  /\ \A i \in 1..Len(availableSlots) :
       /\ availableSlots[i].slot = i - 1
       /\ availableSlots[i].availableSeats = 6
       /\ availableSlots[i].maxCapacity = 6

C15_EmptyDateListsAllSlots ==
  /\ (resp.op = "availability" /\ RowsOn(store, resp.date) = {})
       => FullListing(resp.availableSlots)
  /\ (resp.op = "batch" /\ resp.status = 200)
       => \A d \in resp.startDate..resp.endDate :
            RowsOn(store, d) = {}
              => FullListing(BatchEntry(d).availableSlots)

\* an empty date read through the single-date endpoint while another date
\* holds reservations
C15_Witness ==
  /\ resp.op = "availability"
  /\ RowsOn(store, resp.date) = {}
  /\ store # {}
  /\ Len(resp.availableSlots) = 40
  /\ resp.availableSlots[40].slot = 39

(***************************************************************************)
(* C16. Creating a reservation and then immediately deleting it restores   *)
(* the availability of its date, at every slot, to exactly what it was     *)
(* before the create, in the single-date and the batch result, and the     *)
(* create request that succeeded before succeeds again.  (The store before *)
(* the create is the store after it less the created row.)                 *)
(***************************************************************************)
C16_DeleteAfterCreateStep ==
  (/\ req.op = "create" /\ resp.status = 201
   /\ req'.op = "delete" /\ req'.id = resp.reservation.id) =>
    LET row == resp.reservation
        before == store \ {row}
        d == row.date
    IN /\ resp'.status = 204
       /\ store' = before
       /\ singleAvailability(store', d) = singleAvailability(before, d)
       /\ \A z \in UtcOffsets :
            batchAvailability(store', d, d, z)
              = batchAvailability(before, d, d, z)
       /\ \A t \in Slots : Used(store', d, t) = Used(before, d, t)
       /\ Fits(store', req.body)

C16_CreateDeleteRestores == [][C16_DeleteAfterCreateStep]_vars

\* the most recently created reservation has just been deleted and other
\* reservations remain
C16_Witness ==
  /\ req.op = "delete" /\ resp.status = 204
  /\ req.id = nextId - 1
  /\ store # {}

(***************************************************************************)
(* C17. A delete request, customer or authenticated admin, for an id that  *)
(* is not in the store ends in a not-found error and leaves the store      *)
(* unchanged; for a stored id it removes exactly that reservation and      *)
(* leaves every other reservation unchanged.                               *)
(***************************************************************************)
Authenticated(r) ==
  /\ r.credentials.type = "string"
  /\ r.adminPassword # ""
  /\ r.credentials.password = r.adminPassword

C17_DeleteStep ==
  (\/ req'.op = "delete"
   \/ req'.op = "adminDelete" /\ Authenticated(req')) =>
    IF \E r \in store : r.id = req'.id
      THEN /\ resp'.status \in {200, 204}
           /\ \A r \in store : r.id # req'.id => r \in store'
           /\ \A r \in store' : r \in store /\ r.id # req'.id
      ELSE /\ resp'.status = 404
           /\ store' = store

C17_DeleteExactlyOne == [][C17_DeleteStep]_vars

\* the admin handler has removed one reservation and another one remains
C17_Witness ==
  /\ req.op = "adminDelete" /\ resp.status = 200
  /\ resp.reservation \notin store
  /\ \E r \in store : r.id # req.id

(***************************************************************************)
(* C18. Dates do not interact: creating or deleting a reservation on date  *)
(* d changes neither the outcome of a create request nor the single-date   *)
(* or batch availability of any other date d', so the same slot can be     *)
(* booked to full capacity on each date independently.                     *)
(***************************************************************************)
CreateOutcome(rows, b) ==
  checkCapacity(findManyConfirmed(rows, b.date), b.timeSlot, b.partySize).ok

ProbeBodies(d) == {body(d, t, p) : t \in {4, 28, 35}, p \in {1, 6}}

TouchedDates ==
  IF req'.op = "create"
    THEN {req'.body.date}
    ELSE {r.date : r \in {x \in store : x.id = req'.id}}

C18_OtherDateStep ==
  (req'.op \in {"create", "delete"} /\ store' # store) =>
    \A d \in AvailDates \ TouchedDates :
      /\ {r \in store' : r.date = d} = {r \in store : r.date = d}
      /\ singleAvailability(store', d) = singleAvailability(store, d)
      /\ \A z \in UtcOffsets :
           batchAvailability(store', d, d, z)
             = batchAvailability(store, d, d, z)
      /\ \A b \in ProbeBodies(d) :
           CreateOutcome(store', b) = CreateOutcome(store, b)

C18_DatesIndependent == [][C18_OtherDateStep]_vars

\* slot 4 has just been booked to full capacity on a second date
C18_Witness ==
  /\ req.op = "create" /\ resp.status = 201
  /\ req.body.timeSlot = 4 /\ req.body.partySize = 6
  /\ \E r \in store :
       /\ r.date # req.body.date
       /\ r.timeSlot = 4 /\ r.partySize = 6

(***************************************************************************)
(* C19. Reservations whose status is not CONFIRMED (NO_SHOW, COMPLETED)    *)
(* are ignored by the capacity check of create and by the single-date and  *)
(* batch availability computations, exactly as if the row had been         *)
(* deleted.                                                                *)
(***************************************************************************)
Live(rows) == {r \in rows : r.status = "CONFIRMED"}

C19_TerminalRowsStep ==
  /\ req'.op = "create" =>
       resp'.status = IF Fits(Live(store), req'.body) THEN 201 ELSE 409
  /\ req'.op = "availability" =>
       resp'.availableSlots = singleAvailability(Live(store), req'.date)
  /\ (req'.op = "batch" /\ resp'.status = 200) =>
       resp'.availability =
         batchAvailability(Live(store), resp'.startDate, resp'.endDate,
                           req'.utcOffset)

C19_NonConfirmedIgnored == [][C19_TerminalRowsStep]_vars

\* a batch entry offers all 6 seats at the start slot of a party of 6 that
\* is no longer CONFIRMED
C19_Witness ==
  /\ resp.op = "batch" /\ resp.status = 200
  /\ \E r \in store :
       /\ r.status \in {"NO_SHOW", "COMPLETED"}
       /\ r.partySize = 6
       /\ r.date \in resp.startDate..resp.endDate
       /\ Listed(BatchEntry(r.date).availableSlots, r.timeSlot)
       /\ SeatsOf(BatchEntry(r.date).availableSlots, r.timeSlot) = 6

(***************************************************************************)
(* C20. A list-reservations request without a phone number is rejected     *)
(* with an error before any storage access: it returns no reservation data *)
(* and leaves the store as it was.                                         *)
(***************************************************************************)
C20_ListStep ==
  (req'.op = "list" /\ req'.query.phone = "") =>
    /\ resp'.status = 400
    /\ "reservations" \notin DOMAIN resp'
    /\ store' = store

C20_ListRequiresPhone == [][C20_ListStep]_vars

\* a list request without a phone was refused while reservations are stored
C20_Witness ==
  /\ req.op = "list" /\ req.query.phone = ""
  /\ resp.status = 400
  /\ store # {}

(***************************************************************************)
(* C21. A list-reservations request with phone p returns exactly the       *)
(* stored reservations whose phone equals p, further restricted by the     *)
(* optional date and status filters, ordered ascending by (date,           *)
(* timeSlot); reservations stored under another phone never appear in the  *)
(* result nor influence it.                                                *)
(***************************************************************************)
Matching(rows, q) ==
  {r \in rows : /\ r.phone = q.phone
                /\ (q.date = 0 \/ r.date = q.date)
                /\ (q.status = "" \/ r.status = q.status)}

Ascending(reservations) ==
  \A i \in 1..Len(reservations) : \A j \in 1..Len(reservations) :
    i < j =>
      \/ reservations[i].date < reservations[j].date
      \/ /\ reservations[i].date = reservations[j].date
         /\ reservations[i].timeSlot <= reservations[j].timeSlot

C21_ListStep ==
  (/\ req'.op = "list" /\ req'.query.phone # ""
   /\ req'.query.status \in {"", "CONFIRMED", "NO_SHOW", "COMPLETED"}) =>
    /\ resp'.status = 200
    /\ {resp'.reservations[i] : i \in 1..Len(resp'.reservations)}
         = Matching(store, req'.query)
    /\ Len(resp'.reservations) = Cardinality(Matching(store, req'.query))
    /\ Ascending(resp'.reservations)
    /\ \A i \in 1..Len(resp'.reservations) :
         resp'.reservations[i].phone = req'.query.phone
    /\ store' = store

Confirmations(calls) == {e \in calls : e.kind = "confirmation"}

C22_ConfirmationStep ==
  /\ \A e \in Confirmations(sms') \ Confirmations(sms) :
       /\ pc[Worker] = "committed"
       /\ result[Worker] \in store
       /\ e.id = result[Worker].id
       /\ e.n = 1
       /\ cresp'[Worker] = 201
  /\ Cardinality(Confirmations(sms') \ Confirmations(sms)) <= 1
  /\ (cresp[Worker] = 0 /\ cresp'[Worker] \in {400, 409}) =>
       /\ sms' = sms
       /\ \A e \in Confirmations(sms) : e.id < nextId'

C22_ConfirmationAfterCommit == [][C22_ConfirmationStep]_vars

\* a create ended in a capacity conflict after an earlier create was
\* confirmed: one confirmation call, for the committed reservation
C22_Witness ==
  /\ pc[Worker] = "done" /\ cresp[Worker] = 409
  /\ Cardinality(Confirmations(sms)) = 1
  /\ \E e \in Confirmations(sms) : \E r \in store : r.id = e.id

(***************************************************************************)
(* C23. Every create request whose transaction commits successfully        *)
(* invokes the confirmation notification service with the created          *)
(* reservation.                                                            *)
(***************************************************************************)
Confirmed(row) ==
  \E e \in Confirmations(sms) : e.id = row.id

C23_EveryCommitConfirmed ==
  (pc[Worker] = "done" /\ cresp[Worker] = 201) => Confirmed(result[Worker])

\* C23, amended: every create request whose transaction commits invokes the
\* confirmation notification service with the created reservation, unless
\* SMS_COST_SAVING is 'true' and the party is smaller than 4; then no call is
\* made and the response carries sms: 'not_sent'.
C23_CommitConfirmedUnlessCostSaving ==
  (pc[Worker] = "done" /\ cresp[Worker] = 201) =>
    IF req.costSaving /\ result[Worker].partySize < 4
      THEN /\ ~Confirmed(result[Worker])
           /\ resp.sms = "not_sent"
      ELSE /\ Confirmed(result[Worker])
           /\ resp.sms \in {"sent", "failed"}
           /\ resp.reservation = result[Worker]

\* with SMS_COST_SAVING a party of 4 has been confirmed
C23_Witness ==
  /\ pc[Worker] = "done" /\ cresp[Worker] = 201
  /\ req.costSaving
  /\ result[Worker].partySize = 4
  /\ Confirmed(result[Worker])

(***************************************************************************)
(* C24. If the notification service fails for a committed create or        *)
(* delete, the reservation change stays committed, the request is still    *)
(* reported as successful, and the failure shows only as a secondary       *)
(* status flag of the response: a notification failure is never escalated  *)
(* to a create or delete failure.                                          *)
(***************************************************************************)
FailedCall(kind, id) ==
  \E e \in sms : e.kind = kind /\ e.id = id /\ ~e.success

C24_FailureNotEscalated ==
  (pc[Worker] = "done" /\ result[Worker] # NoBody) =>
    /\ (resp.op = "create"
        /\ FailedCall("confirmation", result[Worker].id)) =>
         /\ resp.status = 201 /\ cresp[Worker] = 201
         /\ resp.sms = "failed"
         /\ resp.reservation = result[Worker]
         /\ result[Worker] \in store
    /\ (resp.op = "delete"
        /\ FailedCall("cancellation", result[Worker].id)) =>
         /\ resp.status = 204 /\ cresp[Worker] = 204
         /\ result[Worker] \notin store
    /\ (resp.op = "adminDelete"
        /\ FailedCall("cancellation", result[Worker].id)) =>
         /\ resp.status = 200 /\ cresp[Worker] = 200
         /\ resp.sms = "failed"
         /\ result[Worker] \notin store

\* a customer delete was answered 204 although its cancellation SMS failed,
\* after a create whose confirmation SMS had failed too
C24_Witness ==
  /\ pc[Worker] = "done" /\ resp.op = "delete" /\ resp.status = 204
  /\ FailedCall("cancellation", result[Worker].id)
  /\ FailedCall("confirmation", result[Worker].id)
  /\ result[Worker] \notin store

(***************************************************************************)
(* C25. On every delete path, customer and admin, the cancellation         *)
(* notification for a reservation is invoked only after that reservation   *)
(* has been removed from the store: a cancellation is never sent for a     *)
(* reservation that is still stored.                                       *)
(***************************************************************************)
C25_CancellationAfterRemoval ==
  \A e \in sms :
    e.kind = "cancellation" => \A r \in store : r.id # e.id

(***************************************************************************)
(* C26. Batch availability rejects a request in which startDate or endDate *)
(* is missing or startDate is after endDate, and otherwise returns exactly *)
(* one entry per calendar date of the inclusive range [startDate,          *)
(* endDate]: the dates of the entries are the dates of the range (one      *)
(* entry when startDate = endDate).                                        *)
(***************************************************************************)
C26_BatchOneEntryPerDate ==
  req.op = "batch" =>
    IF req.query.missing # {} \/ req.query.startDate > req.query.endDate
      THEN resp.status = 400
      ELSE /\ resp.status = 200
           /\ DOMAIN resp.availability
                = req.query.startDate..req.query.endDate
           /\ \A d \in DOMAIN resp.availability :
                resp.availability[d].date = d
           /\ Cardinality(DOMAIN resp.availability)
                = req.query.endDate - req.query.startDate + 1

(***************************************************************************)
(* C27. Every admin operation (list reservations, daily summary, delete    *)
(* reservation) invoked with a missing or incorrect password is rejected   *)
(* as unauthorized, and neither reads nor changes the reservation store    *)
(* nor sends any notification: the answer is the bare 401 whatever the     *)
(* store holds.                                                            *)
(***************************************************************************)
AdminOps == {"adminList", "adminSummary", "adminDelete"}

C27_UnauthorizedStep ==
  (req'.op \in AdminOps /\ ~Authenticated(req')) =>
    /\ resp' = [op |-> req'.op, status |-> 401]
    /\ store' = store
    /\ sms' = sms

C27_RejectedAsUnauthorized == [][C27_UnauthorizedStep]_vars

\* as amended: a password given while the server has no ADMIN_PASSWORD is
\* answered with a server error (500); every other missing or incorrect
\* password is answered 401; neither touches the store or sends anything
C27_RejectedStep ==
  (req'.op \in AdminOps /\ ~Authenticated(req')) =>
    /\ resp' = [op |-> req'.op,
                status |-> IF /\ req'.adminPassword = ""
                              /\ req'.credentials.type = "string"
                              /\ req'.credentials.password # ""
                             THEN 500 ELSE 401]
    /\ store' = store
    /\ sms' = sms

C27_RejectedWithoutTouchingStore == [][C27_RejectedStep]_vars

\* the admin delete of a stored reservation has been refused for a wrong
\* password
C27_Witness ==
  /\ req.op = "adminDelete"
  /\ req.credentials.password = "wrong-secret"
  /\ req.adminPassword = "admin-secret"
  /\ resp.status = 401
  /\ \E r \in store : r.id = req.id

(***************************************************************************)
(* C28. Two reservations on the same date whose start slots differ by at   *)
(* least 12 never share an occupied slot, so a valid create request whose  *)
(* start slot is at least 12 away from every reservation of its date is    *)
(* accepted whatever its party size, full capacity included (e.g. full     *)
(* parties at start slots 0, 12, 24 and 36).                               *)
(***************************************************************************)
Apart(t1, t2) == t1 - t2 >= durationSlots \/ t2 - t1 >= durationSlots

SlotsOf(row) ==
  {createOccupied[row.timeSlot][i] :
     i \in 1..Len(createOccupied[row.timeSlot])}

C28_ApartStep ==
  /\ \A r1, r2 \in store' :
       (r1.date = r2.date /\ Apart(r1.timeSlot, r2.timeSlot))
         => SlotsOf(r1) \cap SlotsOf(r2) = {}
  /\ (/\ req'.op = "create"
      /\ validateRequest(req'.body)
      /\ \A r \in store :
           r.date = req'.body.date => Apart(r.timeSlot, req'.body.timeSlot))
       => /\ resp'.status = 201
          /\ resp'.reservation \in store'
          /\ resp'.reservation.partySize = req'.body.partySize

C28_ApartBookingsIndependent == [][C28_ApartStep]_vars

\* full parties at 18:00, 21:00, 24:00 and 27:00 of one date are all booked
C28_Witness ==
  /\ req.op = "create" /\ resp.status = 201
  /\ \A t \in {0, 12, 24, 36} :
       \E r \in store : /\ r.date = DateMin /\ r.timeSlot = t
                        /\ r.partySize = maxCapacity
                        /\ r.status = "CONFIRMED"

(***************************************************************************)
(* C29. A create request whose timeSlot is 29 or greater is rejected with  *)
(* a validation error, while start slots 0 and 27 are accepted.            *)
(***************************************************************************)
OtherwiseValid(b) == validateRequest([b EXCEPT !.timeSlot = MinTimeSlot])

HasRoom(rows, b) ==
  SumPartySize(findManyConfirmed(rows, b.date)) + b.partySize <= maxCapacity

C29_LateStartStep ==
  (req'.op = "create" /\ OtherwiseValid(req'.body)) =>
    /\ req'.body.timeSlot >= lateThreshold + 2 =>
         resp'.status = 400 /\ store' = store
    /\ (req'.body.timeSlot \in {MinTimeSlot, lateThreshold}
          /\ HasRoom(store, req'.body)) => resp'.status = 201

C29_SlotRangeStep ==
  (req'.op = "create" /\ OtherwiseValid(req'.body)) =>
    /\ resp'.status = 400
         <=> (\/ req'.body.timeSlot < MinTimeSlot
              \/ req'.body.timeSlot > MaxTimeSlot)
    /\ resp'.status = 400 => store' = store
    /\ (req'.body.timeSlot \in MinTimeSlot..MaxTimeSlot
          /\ HasRoom(store, req'.body))
         => /\ resp'.status = 201
            /\ resp'.reservation.timeSlot = req'.body.timeSlot
            /\ resp'.reservation \in store'

ClockLabel(minutes) ==
  LET total == 18 * 60 + minutes
      hour == total \div 60
      shown == IF hour > 24 THEN hour - 24 ELSE hour
  IN <<shown \div 10, shown % 10, (total % 60) \div 10, (total % 60) % 10>>

C30_Examples ==
  (0 :> <<<<1, 8, 0, 0>>, <<1, 8, 1, 5>>>>)
    @@ (24 :> <<<<2, 4, 0, 0>>, <<2, 4, 1, 5>>>>)
    @@ (28 :> <<<<0, 1, 0, 0>>, <<0, 1, 1, 5>>>>)
    @@ (39 :> <<<<0, 3, 4, 5>>, <<0, 4, 0, 0>>>>)

C30_FormatTimeSlot ==
  (resp.op = "format" /\ resp.copy = "sms") =>
    /\ req.timeSlot \in Slots
    /\ resp.label = <<ClockLabel(15 * req.timeSlot),
                      ClockLabel(15 * req.timeSlot + 15)>>
    /\ req.timeSlot \in DOMAIN C30_Examples =>
         resp.label = C30_Examples[req.timeSlot]

\* slot 24 has been formatted as 24:00-24:15
C30_Witness ==
  /\ resp.op = "format" /\ resp.copy = "sms"
  /\ req.timeSlot = 24
  /\ resp.label = <<<<2, 4, 0, 0>>, <<2, 4, 1, 5>>>>

(***************************************************************************)
(* C31. Every reservation-creation request (POST /reservations and POST    *)
(* /api/reservations) passes through the creation rate limiter (10         *)
(* attempts per 5 minutes) before the create handler runs: a request the   *)
(* handler has answered was counted by that limiter and found within its   *)
(* limit, and a request beyond the limit is rejected without reaching the  *)
(* handler or the store.                                                   *)
(***************************************************************************)
C31_CreateStep ==
  req'.op = "create" =>
    IF resp'.status # 429
      THEN /\ hits'.reservation = hits.reservation + 1
           /\ hits'.reservation <= limiterMax.reservation
      ELSE store' = store /\ sms' = sms

C31_CreationRateLimited == [][C31_CreateStep]_vars

(***************************************************************************)
(* C32. The reservation store changes only by the insertion of one new     *)
(* CONFIRMED row with a fresh id, distinct from every id ever stored, by a *)
(* successful create, and by the removal of one row by a successful        *)
(* delete; availability, list and lookup requests and every failed create  *)
(* or delete leave it unchanged, and no operation alters the id, date,     *)
(* timeSlot or partySize of an existing row.                               *)
(***************************************************************************)
\* every id ever stored is below nextId, which never decreases
IdsBelow(rows, n) == \A r \in rows : r.id < n

Inserted(row) ==
  /\ row \notin store
  /\ store' = store \cup {row}
  /\ row.status = "CONFIRMED"
  /\ row.id = nextId
  /\ \A r \in store : r.id # row.id

C32_StoreStep ==
  /\ IdsBelow(store, nextId) /\ IdsBelow(store', nextId')
  /\ nextId' >= nextId
  /\ store' # store =>
       \/ /\ req'.op = "create" /\ resp'.status = 201
          /\ Inserted(resp'.reservation)
          /\ nextId' > nextId
       \/ /\ req'.op \in {"delete", "adminDelete"}
          /\ resp'.status \in {200, 204}
          /\ \E r \in store : r.id = req'.id /\ store' = store \ {r}
  /\ (\/ req'.op \in {"availability", "batch", "list", "get"}
      \/ resp'.status \notin {200, 201, 204}) => store' = store
  /\ \A r \in store : \A r2 \in store' :
       r.id = r2.id => /\ r.date = r2.date
                       /\ r.timeSlot = r2.timeSlot
                       /\ r.partySize = r2.partySize

C32_StoreFrame == [][C32_StoreStep]_vars

\* a reservation has been created after an earlier one was deleted: the
\* table holds the later id only
C32_Witness ==
  /\ req.op = "create" /\ resp.status = 201
  /\ resp.reservation \in store
  /\ \E id \in Ids : id < resp.reservation.id /\ findUnique(store, id) = {}

(***************************************************************************)
(* C33. Read side and write side agree for the batch endpoint: in every    *)
(* reachable store state, for every date of a batch answer and every start *)
(* slot t, the answer lists t with availableSeats = a exactly when a       *)
(* create at t executed next succeeds for every party size p <= a and ends *)
(* in a capacity conflict for every p > a; t is omitted exactly when no    *)
(* party size >= 1 can be created at t.                                    *)
(***************************************************************************)
PartySizes == MinPartySize..MaxPartySize

\* the answer offers at least p seats at start slot t
Offers(availableSlots, t, p) ==
  Listed(availableSlots, t) /\ p <= SeatsOf(availableSlots, t)

C33_BatchCreateStep ==
  (resp.op = "batch" /\ resp.status = 200) =>
    /\ \A d \in resp.startDate..resp.endDate :
         \A t \in Slots : \A p \in PartySizes :
           CreateOutcome(store, body(d, t, p))
             <=> Offers(BatchEntry(d).availableSlots, t, p)
    /\ (/\ req'.op = "create"
        /\ validateRequest(req'.body)
        /\ req'.body.date \in resp.startDate..resp.endDate)
         => /\ resp'.status \in {201, 409}
            /\ resp'.status = 201
                 <=> Offers(BatchEntry(req'.body.date).availableSlots,
                            req'.body.timeSlot, req'.body.partySize)

Elements(seq) == {seq[i] : i \in 1..Len(seq)}

C34_FourCopiesAgree ==
  resp.op = "slots" =>
    /\ req.timeSlot \in Slots
    /\ resp.slots \in {occupiedSlots(req.timeSlot),
                       calculateOccupiedSlots(req.timeSlot),
                       calculateOccupiedSlotsSingle(req.timeSlot),
                       calculateOccupiedSlotsBatch(req.timeSlot)}
    /\ Elements(resp.slots) = Elements(occupiedSlots(req.timeSlot))
    /\ Elements(resp.slots) = Elements(calculateOccupiedSlots(req.timeSlot))
    /\ Elements(resp.slots)
         = Elements(calculateOccupiedSlotsSingle(req.timeSlot))
    /\ Elements(resp.slots)
         = Elements(calculateOccupiedSlotsBatch(req.timeSlot))

\* the batch copy has been applied to the first start slot of the late window
C34_Witness ==
  /\ resp.op = "slots" /\ resp.copy = "batch"
  /\ req.timeSlot = lateThreshold + 1
  /\ Elements(resp.slots) = (lateThreshold + 1)..maxSlot

(***************************************************************************)
(* C35. In every state reachable through the create/delete API, for every  *)
(* date the total party size of all CONFIRMED reservations starting in the *)
(* late window (timeSlot 28..39) is at most 6, because every late-window   *)
(* reservation occupies slot 39.                                           *)
(***************************************************************************)
LateStarts(rows, d) ==
  {r \in rows : /\ r.date = d
                /\ r.status = "CONFIRMED"
                /\ r.timeSlot > lateThreshold}

C35_LateWindowTotal ==
  \A d \in StoredDates : SumPartySize(LateStarts(store, d)) <= maxCapacity

(***************************************************************************)
(* C36. For each reservation at most one cancellation notification is ever *)
(* sent, under every interleaving of concurrent delete requests (customer  *)
(* or admin) for the same reservation id.                                  *)
(***************************************************************************)
Cancellations(id) == {e \in sms : e.kind = "cancellation" /\ e.id = id}

C36_OneCancellation ==
  \A id \in Ids : Cardinality(Cancellations(id)) <= 1

(***************************************************************************)
(* C37. When several delete requests for the same stored reservation id    *)
(* run concurrently, exactly one of them reports success and every other   *)
(* one reports not-found; none of them ends in a server error.             *)
(***************************************************************************)
DeletesOf(id) ==
  {p \in Procs : /\ "id" \in DOMAIN creq[p]
                 /\ creq[p].op = "delete"
                 /\ creq[p].id = id
                 /\ pc[p] = "done"}

C37_ConcurrentDeletes ==
  \A id \in Ids :
    /\ \A p \in DeletesOf(id) : cresp[p] \in {204, 404}
    /\ Cardinality({p \in DeletesOf(id) : cresp[p] = 204}) <= 1

(***************************************************************************)
(* C38. In the admin daily summary, for every hour 18..27 the reported     *)
(* occupiedSeats never exceeds maxCapacity (6) and the reported            *)
(* availableSeats is never negative, in every store state reachable        *)
(* through the create/delete API.                                          *)
(***************************************************************************)
C38_SummaryWithinCapacity ==
  (resp.op = "adminSummary" /\ resp.status = 200) =>
    \A timeKey \in DOMAIN resp.hourlyOccupancy :
      /\ resp.hourlyOccupancy[timeKey].occupiedSeats <= maxCapacity
      /\ resp.hourlyOccupancy[timeKey].availableSeats >= 0

TypeOK ==
  /\ nextId \in 1..(MaxReservations + 1)
  /\ \A r \in store : r.id \in Ids /\ r.id < nextId
====
